---------------------------- MODULE Spec2Model ----------------------------
(***************************************************************************)
(* A model of the ssb legacy message data codec (sunrise-choir,            *)
(* legacy-msg-data): the order-preserving object container                 *)
(* (RidiculousStringMap), the json encoder and decoder, and the cbor       *)
(* encoder and decoder.                                                    *)
(*                                                                         *)
(* Bytes are the integers 0..255, a string is the sequence of its utf8     *)
(* bytes, a u64 that may exceed the checker's integers is the sequence of  *)
(* its 8 bytes, most significant first.                                    *)
(***************************************************************************)
EXTENDS Integers, Sequences, FiniteSets, TLC

VARIABLES
    map,        \* the RidiculousStringMap under construction: [naturals, others]
    map2,       \* a second RidiculousStringMap (for comparing two ValueOrdered)
    firstSeen,  \* history: the keys passed to insert on map, in order of their first call
    bound,      \* history: the value last passed to insert, per key of map
    ret,        \* what the last insert call returned
    ninserts,   \* number of insert calls made so far
    pc,         \* position of the caller: which operation comes next
    value,      \* the Value handed to an encoder
    bytes,      \* the bytes an encoder wrote / the input handed to a decoder
    bytes2,     \* the bytes written for the second value
    result,     \* what from_slice returned
    cfg         \* the run's parameters: codec, compact flag, target endianness, HashMap order

vars == <<map, map2, firstSeen, bound, ret, ninserts, pc, value, bytes, bytes2, result, cfg>>

---------------------------------------------------------------------------
(* Bounds of the model. *)

\* insert calls per behaviour
MaxInserts == 4

---------------------------------------------------------------------------
(* Option, and a few sequence helpers. *)

None == [some |-> FALSE]
Some(x) == [some |-> TRUE, val |-> x]

Min(a, b) == IF a < b THEN a ELSE b

Range(s) == {s[i] : i \in DOMAIN s}

\* s[1..n] and s[n+1..]: slice::split_at
Take(s, n) == SubSeq(s, 1, n)
Drop(s, n) == SubSeq(s, n + 1, Len(s))

IsPrefix(p, s) == Len(p) <= Len(s) /\ Take(s, Len(p)) = p

RECURSIVE Concat(_)
Concat(ss) == IF ss = <<>> THEN <<>> ELSE Head(ss) \o Concat(Tail(ss))

---------------------------------------------------------------------------
(* value.rs: the values.  An Object of Value holds a HashMap (a function    *)
(* from keys to values); an Object of ValueOrdered holds a                  *)
(* RidiculousStringMap.                                                     *)

Null == [t |-> "Null"]
Bool(b) == [t |-> "Bool", b |-> b]
Float(f) == [t |-> "Float", f |-> f]
String(s) == [t |-> "String", s |-> s]
Array(v) == [t |-> "Array", v |-> v]
Object(m) == [t |-> "Object", m |-> m]
ObjectOrdered(m) == [t |-> "ObjectOrdered", m |-> m]

---------------------------------------------------------------------------
(* value.rs: GraphicolexicalString and RidiculousStringMap.                 *)

\* std: Ord for str compares the bytes lexicographically
RECURSIVE str_cmp(_, _)
str_cmp(a, b) ==
    IF a = <<>> /\ b = <<>> THEN "Equal"
    ELSE IF a = <<>> THEN "Less"
    ELSE IF b = <<>> THEN "Greater"
    ELSE IF Head(a) < Head(b) THEN "Less"
    ELSE IF Head(a) > Head(b) THEN "Greater"
    ELSE str_cmp(Tail(a), Tail(b))

\* a mutant of cmp: compares the strings alone, not their lengths first
cmp_lexicographic_only(a, b) == str_cmp(a, b)

\* impl Ord for GraphicolexicalString
cmp(a, b) ==
    IF Len(a) > Len(b) THEN "Greater"
    ELSE IF Len(a) < Len(b) THEN "Less"
    ELSE str_cmp(a, b)

\* a mutant of is_nat_str: the first digit may be a zero
is_nat_str_any_digits(s) == s # <<>> /\ \A i \in 1..Len(s) : s[i] >= 48 /\ s[i] <= 57

is_nat_str(s) ==
    /\ s # <<>>
    /\ Head(s) >= 49 /\ Head(s) <= 57
    /\ \A i \in 2..Len(s) : s[i] >= 48 /\ s[i] <= 57

Entry(k, v) == [k |-> k, v |-> v]

EmptyMap == [naturals |-> <<>>, others |-> <<>>]

\* BTreeMap::insert: the entries are kept sorted by the keys' Ord; an equal key keeps its
\* place and has its value replaced
btree_insert(entries, k, v) ==
    LET less == {i \in DOMAIN entries : cmp(entries[i].k, k) = "Less"}
        eq == {i \in DOMAIN entries : cmp(entries[i].k, k) = "Equal"}
        n == Cardinality(less)
    IN  IF eq # {}
        THEN LET i == CHOOSE j \in eq : TRUE
             IN  [map |-> [entries EXCEPT ![i] = Entry(k, v)], old |-> Some(entries[i].v)]
        ELSE [map |-> Take(entries, n) \o <<Entry(k, v)>> \o Drop(entries, n), old |-> None]

\* IndexMap::insert: a new key is appended, a known key keeps its place and has its value
\* replaced
index_insert(entries, k, v) ==
    LET eq == {i \in DOMAIN entries : entries[i].k = k}
    IN  IF eq # {}
        THEN LET i == CHOOSE j \in eq : TRUE
             IN  [map |-> [entries EXCEPT ![i] = Entry(k, v)], old |-> Some(entries[i].v)]
        ELSE [map |-> Append(entries, Entry(k, v)), old |-> None]

\* RidiculousStringMap::insert; the result is the map after the call and the returned Option
insert(m, key, val) ==
    IF key = <<48>>
    THEN LET r == btree_insert(m.naturals, key, val)
         IN  [map |-> [m EXCEPT !.naturals = r.map], old |-> r.old]
    ELSE IF is_nat_str(key)
         THEN LET r == btree_insert(m.naturals, key, val)
              IN  [map |-> [m EXCEPT !.naturals = r.map], old |-> r.old]
         ELSE LET r == index_insert(m.others, key, val)
              IN  [map |-> [m EXCEPT !.others = r.map], old |-> r.old]

\* RidiculousStringMap::len
len(m) == Len(m.naturals) + Len(m.others)

\* RidiculousStringMap::iter with Iter::next: the naturals, then the others
iter(m) == m.naturals \o m.others

RECURSIVE value_eq(_, _), btree_eq(_, _), index_eq(_, _), map_eq(_, _)

\* derive(PartialEq) for Value and ValueOrdered: the same variant with equal contents
\* (a HashMap equals another with the same keys bound to equal values)
value_eq(a, b) ==
    /\ a.t = b.t
    /\ CASE a.t = "Array" ->
                Len(a.v) = Len(b.v) /\ \A i \in DOMAIN a.v : value_eq(a.v[i], b.v[i])
         [] a.t = "ObjectOrdered" -> map_eq(a.m, b.m)
         [] a.t = "Object" ->
                DOMAIN a.m = DOMAIN b.m /\ \A k \in DOMAIN a.m : value_eq(a.m[k], b.m[k])
         [] OTHER -> a = b

\* BTreeMap's PartialEq: the same length and the sorted entries equal one by one
btree_eq(a, b) ==
    /\ Len(a) = Len(b)
    /\ \A i \in DOMAIN a : a[i].k = b[i].k /\ value_eq(a[i].v, b[i].v)

\* IndexMap's PartialEq: the same length and every key of the one bound to an equal
\* value in the other, in whatever order
index_eq(a, b) ==
    /\ Len(a) = Len(b)
    /\ \A i \in DOMAIN a : \E j \in DOMAIN b : b[j].k = a[i].k /\ value_eq(a[i].v, b[j].v)

\* derive(PartialEq) for RidiculousStringMap: field by field
map_eq(a, b) == btree_eq(a.naturals, b.naturals) /\ index_eq(a.others, b.others)

---------------------------------------------------------------------------
(* The keys and values the container is exercised with.                     *)

\* "0", "2", "9", "10", and the keys that are no naturals: "a", "b", "01"
MapKeys == {<<48>>, <<50>>, <<57>>, <<49, 48>>, <<97>>, <<98>>, <<48, 49>>}
MapVals == {Null, Bool(TRUE)}

Idle ==
    /\ value = Null /\ bytes = <<>> /\ bytes2 = <<>> /\ result = None
    /\ cfg = [codec |-> "none"]

InitMap ==
    /\ map = EmptyMap /\ map2 = EmptyMap
    /\ firstSeen = <<>>
    /\ bound = [k \in {} |-> Null]
    /\ ret = None
    /\ ninserts = 0
    /\ pc = "insert"
    /\ Idle

\* one call of map.insert(k, v); bytes and value keep the arguments of the call
Insert(k, v) ==
    /\ pc = "insert"
    /\ ninserts < MaxInserts
    /\ LET r == insert(map, k, v)
       IN  /\ map' = r.map
           /\ ret' = r.old
    /\ bytes' = k /\ value' = v
    /\ firstSeen' = IF k \in Range(firstSeen) THEN firstSeen ELSE Append(firstSeen, k)
    /\ bound' = [x \in DOMAIN bound \cup {k} |-> IF x = k THEN v ELSE bound[x]]
    /\ ninserts' = ninserts + 1
    /\ UNCHANGED <<map2, pc, bytes2, result, cfg>>

NextMap == \E k \in MapKeys, v \in MapVals : Insert(k, v)

SpecMap == InitMap /\ [][NextMap]_vars

---------------------------------------------------------------------------
(* C1 *)

\* the claim's own reading of "natural-like": "0" or [1-9][0-9]*
NaturalLike(s) ==
    \/ s = <<48>>
    \/ /\ Len(s) >= 1
       /\ s[1] \in 49..57
       /\ \A i \in 2..Len(s) : s[i] \in 48..57

\* position of a key in the history of first insert calls
FirstSeenAt(k) == CHOOSE i \in DOMAIN firstSeen : firstSeen[i] = k

\* C1: after any sequence of insert calls on an empty map, iter() yields exactly the
\* entries last bound, the natural-like keys before all others, the natural-like keys
\* shorter first and byte-lexicographically among equal lengths, and the other keys in
\* the order of their (first) insertion.
C1_IterOrder ==
    LET es == iter(map)
    IN  /\ {es[i].k : i \in DOMAIN es} = DOMAIN bound
        /\ \A i \in DOMAIN es : es[i].v = bound[es[i].k]
        /\ \A i, j \in DOMAIN es :
             i < j =>
               /\ es[i].k # es[j].k
               /\ NaturalLike(es[j].k) => NaturalLike(es[i].k)
               /\ (NaturalLike(es[i].k) /\ NaturalLike(es[j].k)) =>
                    \/ Len(es[i].k) < Len(es[j].k)
                    \/ /\ Len(es[i].k) = Len(es[j].k)
                       /\ str_cmp(es[i].k, es[j].k) = "Less"
               /\ (~NaturalLike(es[i].k) /\ ~NaturalLike(es[j].k)) =>
                    FirstSeenAt(es[i].k) < FirstSeenAt(es[j].k)

\* "10" was inserted before "2" and "b" before "a", and all four are yielded
C1_Witness ==
    /\ Len(map.naturals) >= 2 /\ Len(map.others) >= 2
    /\ firstSeen = <<<<49, 48>>, <<50>>, <<98>>, <<97>>>>

---------------------------------------------------------------------------
(* f64: a float is the sequence of the 8 bytes of its IEEE-754 bits, most    *)
(* significant first.  The floats the model formats or parses are those of   *)
(* FloatTable, each with its shortest round-trip decimal digits and the      *)
(* position n of the decimal point (the value is 0.d1..dk * 10^n).           *)

FloatTable == {
    [bits |-> <<0, 0, 0, 0, 0, 0, 0, 0>>,              neg |-> FALSE, digits |-> <<0>>, n |-> 1],    \* 0
    [bits |-> <<63, 240, 0, 0, 0, 0, 0, 0>>,           neg |-> FALSE, digits |-> <<1>>, n |-> 1],    \* 1
    [bits |-> <<191, 248, 0, 0, 0, 0, 0, 0>>,          neg |-> TRUE,  digits |-> <<1, 5>>, n |-> 1], \* -1.5
    [bits |-> <<64, 89, 0, 0, 0, 0, 0, 0>>,            neg |-> FALSE, digits |-> <<1>>, n |-> 3],    \* 100
    [bits |-> <<63, 80, 98, 77, 210, 241, 169, 252>>,  neg |-> FALSE, digits |-> <<1>>, n |-> -2],   \* 0.001
    [bits |-> <<68, 75, 26, 228, 214, 226, 239, 80>>,  neg |-> FALSE, digits |-> <<1>>, n |-> 22],   \* 1e21
    [bits |-> <<62, 122, 215, 242, 154, 188, 175, 72>>, neg |-> FALSE, digits |-> <<1>>, n |-> -6],  \* 1e-7
    [bits |-> <<63, 241, 153, 153, 153, 153, 153, 154>>, neg |-> FALSE, digits |-> <<1, 1>>, n |-> 1] \* 1.1
}

NegZeroBits == <<128, 0, 0, 0, 0, 0, 0, 0>>
InfBits == <<127, 240, 0, 0, 0, 0, 0, 0>>
NegInfBits == <<255, 240, 0, 0, 0, 0, 0, 0>>
NaNBits == <<127, 248, 0, 0, 0, 0, 0, 0>>

\* f == 0.0: all bits but the sign are zero
f64_is_zero(f) == \A i \in 2..8 : f[i] = 0 /\ f[1] \in {0, 128}
f64_is_sign_positive(f) == f[1] < 128
\* the exponent field (11 bits after the sign) is not all ones
f64_is_finite(f) == ~((f[1] % 128) = 127 /\ f[2] >= 240)

\* a mutant of is_valid: negative zero passes
is_valid_accepts_negative_zero(f) == f64_is_finite(f)

\* LegacyF64::is_valid
is_valid(f) ==
    IF f64_is_zero(f)
    THEN f64_is_sign_positive(f)
    ELSE f64_is_finite(f) /\ ~f64_is_zero(f)

\* a mutant of from_f64: the f64 is wrapped without a look at it
from_f64_always_some(f) == Some(f)

\* LegacyF64::from_f64
from_f64(f) == IF is_valid(f) THEN Some(f) ELSE None

---------------------------------------------------------------------------
(* json/ser.rs: the json serializer.                                        *)

JsonSerializer(writer, compact) == [writer |-> writer, compact |-> compact, indent |-> 0]

write_all(ser, bs) == [ser EXCEPT !.writer = @ \o bs]

\* bs, n times over
Repeat(bs, n) == [i \in 1..(n * Len(bs)) |-> bs[((i - 1) % Len(bs)) + 1]]

\* a mutant of write_indent: one space per level
write_indent_one_space(ser) == write_all(ser, Repeat(<<32>>, ser.indent))

\* JsonSerializer::write_indent
write_indent(ser) == write_all(ser, Repeat(<<32, 32>>, ser.indent))

serialize_bool(ser, v) ==
    write_all(ser, IF v THEN <<116, 114, 117, 101>> ELSE <<102, 97, 108, 115, 101>>)

serialize_null(ser) == write_all(ser, <<110, 117, 108, 108>>)

\* the decimal digits of a natural number, as ascii
RECURSIVE DecimalDigits(_)
DecimalDigits(n) ==
    IF n < 10 THEN <<48 + n>> ELSE DecimalDigits(n \div 10) \o <<48 + (n % 10)>>

AsciiDigits(ds) == [i \in DOMAIN ds |-> 48 + ds[i]]

\* ryu_ecmascript::Buffer::format: the shortest round-trip digits laid out as
\* ECMAScript's Number::toString lays them out
format_f64(f) ==
    LET r == CHOOSE x \in FloatTable : x.bits = f
        k == Len(r.digits)
        n == r.n
        sign == IF r.neg THEN <<45>> ELSE <<>>
        ds == AsciiDigits(r.digits)
        e == n - 1
    IN  IF f64_is_zero(f) THEN <<48>>
        ELSE IF k <= n /\ n <= 21 THEN sign \o ds \o Repeat(<<48>>, n - k)
        ELSE IF 0 < n /\ n <= 21 THEN sign \o Take(ds, n) \o <<46>> \o Drop(ds, n)
        ELSE IF -6 < n /\ n <= 0 THEN sign \o <<48, 46>> \o Repeat(<<48>>, -n) \o ds
        ELSE sign \o <<ds[1]>> \o (IF k = 1 THEN <<>> ELSE <<46>> \o Drop(ds, 1))
                  \o <<101>> \o (IF e < 0 THEN <<45>> \o DecimalDigits(-e)
                                          ELSE <<43>> \o DecimalDigits(e))

serialize_f64(ser, v) == write_all(ser, format_f64(v))

\* a mutant of HexLower: the digits above 9 are written in upper case
HexUpper(d) == IF d < 10 THEN 48 + d ELSE 65 + (d - 10)

HexLower(d) == IF d < 10 THEN 48 + d ELSE 97 + (d - 10)

\* a mutant of escape_byte: every byte is written as it is
escape_byte_unescaped(byte) == <<byte>>

\* one arm of the match in serialize_str
escape_byte(byte) ==
    IF byte = 8 THEN <<92, 98>>
    ELSE IF byte = 9 THEN <<92, 116>>
    ELSE IF byte = 10 THEN <<92, 110>>
    ELSE IF byte = 12 THEN <<92, 102>>
    ELSE IF byte = 13 THEN <<92, 114>>
    ELSE IF byte <= 31 THEN <<92, 117, 48, 48, HexLower(byte \div 16), HexLower(byte % 16)>>
    ELSE IF byte = 34 THEN <<92, 34>>
    ELSE IF byte = 92 THEN <<92, 92>>
    ELSE <<byte>>

serialize_str(ser, v) ==
    write_all(write_all(write_all(ser, <<34>>), Concat([i \in DOMAIN v |-> escape_byte(v[i])])),
              <<34>>)

\* CollectionSerializer::new, behind serialize_array and serialize_object
CollectionSerializer(ser, empty) == [ser |-> ser, first |-> TRUE, empty |-> empty]

serialize_array(ser, n) ==
    CollectionSerializer([write_all(ser, <<91>>) EXCEPT !.indent = @ + 1], n = 0)

serialize_object(ser, n) ==
    CollectionSerializer([write_all(ser, <<123>>) EXCEPT !.indent = @ + 1], n = 0)

\* a mutant of begin_item: the comma is written before the first item as well
begin_item_always_comma(coll) ==
    LET s1 == write_all(coll.ser, <<44>>)
        s2 == IF ~s1.compact THEN write_indent(write_all(s1, <<10>>)) ELSE s1
    IN  [coll EXCEPT !.first = FALSE, !.ser = s2]

\* the part of serialize_element and of serialize_key before the element is written
begin_item(coll) ==
    LET s1 == IF coll.first THEN coll.ser ELSE write_all(coll.ser, <<44>>)
        s2 == IF ~s1.compact THEN write_indent(write_all(s1, <<10>>)) ELSE s1
    IN  [coll EXCEPT !.first = FALSE, !.ser = s2]

\* SerializeObject::serialize_key
serialize_key(coll, key) ==
    LET c1 == begin_item(coll)
        s1 == serialize_str(c1.ser, key)
    IN  [c1 EXCEPT !.ser = IF s1.compact THEN write_all(s1, <<58>>)
                                         ELSE write_all(s1, <<58, 32>>)]

\* SerializeArray::end and SerializeObject::end, up to the closing bracket
end_collection(coll, bracket) ==
    LET s1 == IF ~coll.ser.compact
              THEN LET s == [coll.ser EXCEPT !.indent = @ - 1]
                   IN  IF ~coll.empty THEN write_indent(write_all(s, <<10>>)) ELSE s
              ELSE coll.ser
    IN  write_all(s1, <<bracket>>)

\* iteration over a HashMap: the entries in an order that depends on the hasher only
hash_iter(m) ==
    LET ks == SelectSeq(cfg.hashOrder, LAMBDA k : k \in DOMAIN m)
    IN  [i \in DOMAIN ks |-> Entry(ks[i], m[ks[i]])]

\* the entries of an object in the order Serialize visits them
entries_of(v) == IF v.t = "Object" THEN hash_iter(v.m) ELSE iter(v.m)

\* impl Serialize for Value / ValueOrdered, on a JsonSerializer
RECURSIVE serialize(_, _), serialize_elements(_, _), serialize_entries(_, _)
serialize(v, ser) ==
    CASE v.t = "Null" -> serialize_null(ser)
      [] v.t = "Bool" -> serialize_bool(ser, v.b)
      [] v.t = "Float" -> serialize_f64(ser, v.f)
      [] v.t = "String" -> serialize_str(ser, v.s)
      [] v.t = "Array" ->
            end_collection(serialize_elements(v.v, serialize_array(ser, Len(v.v))), 93)
      [] v.t \in {"Object", "ObjectOrdered"} ->
            LET es == entries_of(v)
            IN  end_collection(serialize_entries(es, serialize_object(ser, Len(es))), 125)

\* the loop over SerializeArray::serialize_element
serialize_elements(vs, coll) ==
    IF vs = <<>> THEN coll
    ELSE LET c1 == begin_item(coll)
         IN  serialize_elements(Tail(vs), [c1 EXCEPT !.ser = serialize(Head(vs), c1.ser)])

\* the loop over SerializeObject::serialize_entry (serialize_key, then serialize_value)
serialize_entries(es, coll) ==
    IF es = <<>> THEN coll
    ELSE LET c1 == serialize_key(coll, Head(es).k)
         IN  serialize_entries(Tail(es), [c1 EXCEPT !.ser = serialize(Head(es).v, c1.ser)])

\* json::to_vec
json_to_vec(v, compact) == serialize(v, JsonSerializer(<<>>, compact)).writer

---------------------------------------------------------------------------
(* Two ValueOrdered objects built by insert calls, then both encoded by the *)
(* json encoder in signing mode (to_vec(_, false)).                         *)

\* "1", "a", "b"
EqKeys == {<<49>>, <<97>>, <<98>>}

InitEq ==
    /\ map = EmptyMap /\ map2 = EmptyMap
    /\ firstSeen = <<>>
    /\ bound = [k \in {} |-> Null]
    /\ ret = None
    /\ ninserts = 0
    /\ pc = "insert"
    /\ Idle

\* one call of insert on the first map
InsertFirst(k, v) ==
    /\ pc = "insert"
    /\ ninserts < MaxInserts
    /\ LET r == insert(map, k, v)
       IN  /\ map' = r.map
           /\ ret' = r.old
    /\ ninserts' = ninserts + 1
    /\ UNCHANGED <<map2, firstSeen, bound, pc, value, bytes, bytes2, result, cfg>>

\* one call of insert on the second map
InsertSecond(k, v) ==
    /\ pc = "insert"
    /\ ninserts < MaxInserts
    /\ LET r == insert(map2, k, v)
       IN  /\ map2' = r.map
           /\ ret' = r.old
    /\ ninserts' = ninserts + 1
    /\ UNCHANGED <<map, firstSeen, bound, pc, value, bytes, bytes2, result, cfg>>

\* to_vec(&ValueOrdered::Object(map), false) and the same for the second map
SignBoth ==
    /\ pc = "insert"
    /\ pc' = "signed"
    /\ cfg' = [codec |-> "json", compact |-> FALSE]
    /\ value' = ObjectOrdered(map)
    /\ bytes' = json_to_vec(ObjectOrdered(map), FALSE)
    /\ bytes2' = json_to_vec(ObjectOrdered(map2), FALSE)
    /\ UNCHANGED <<map, map2, firstSeen, bound, ret, ninserts, result>>

NextEq ==
    \/ \E k \in EqKeys, v \in MapVals : InsertFirst(k, v)
    \/ \E k \in EqKeys, v \in MapVals : InsertSecond(k, v)
    \/ SignBoth

SpecEq == InitEq /\ [][NextEq]_vars

---------------------------------------------------------------------------
(* C2 *)

\* C2: two ValueOrdered values that compare equal (==) are encoded in signing mode to
\* the same bytes, whatever the order their entries were inserted in.
C2_EqualValuesSignEqual ==
    (pc = "signed" /\ value_eq(ObjectOrdered(map), ObjectOrdered(map2))) => bytes = bytes2

---------------------------------------------------------------------------
(* json/de.rs: the json deserializer.  The deserializer's state is its      *)
(* input, the bytes not yet consumed.  A Result is Ok with the value and    *)
(* the input left, or Err with the error.                                    *)

\* a mutant of is_ws: the form feed is whitespace as well
is_ws_or_form_feed(byte) == byte \in {9, 10, 12, 13, 32}

Ok(v, input) == [ok |-> TRUE, val |-> v, input |-> input]
Err(e) == [ok |-> FALSE, err |-> e]
Unit == <<>>

is_ws(byte) == byte = 9 \/ byte = 10 \/ byte = 13 \/ byte = 32

is_digit(byte) == byte >= 48 /\ byte <= 57

\* Deserializer::next
next(input) ==
    IF input = <<>> THEN Err("UnexpectedEndOfInput") ELSE Ok(Head(input), Tail(input))

\* advance_while(is_digit)
RECURSIVE advance_while_digit(_)
advance_while_digit(input) ==
    IF input # <<>> /\ is_digit(Head(input)) THEN advance_while_digit(Tail(input)) ELSE input

\* the loop of consume_until(is_ws): the input from its first non-whitespace byte on
RECURSIVE skip_ws(_)
skip_ws(input) ==
    IF input # <<>> /\ is_ws(Head(input)) THEN skip_ws(Tail(input)) ELSE input

\* peek_ws: consumes the whitespace and peeks
peek_ws(input) ==
    LET rest == skip_ws(input)
    IN  IF rest = <<>> THEN Err("UnexpectedEndOfInput") ELSE Ok(Head(rest), rest)

\* next_ws: consumes the whitespace and the byte after it
next_ws(input) ==
    LET rest == skip_ws(input)
    IN  IF rest = <<>> THEN Err("UnexpectedEndOfInput") ELSE Ok(Head(rest), Tail(rest))

expect_ws_err(input, exp, err) ==
    LET r == next_ws(input)
    IN  IF ~r.ok THEN r ELSE IF r.val = exp THEN Ok(Unit, r.input) ELSE Err(err)

expect_err(input, expected, err) ==
    LET r == next(input)
    IN  IF ~r.ok THEN r ELSE IF r.val = expected THEN Ok(Unit, r.input) ELSE Err(err)

\* expect_pred(is_digit)
expect_pred_digit(input) ==
    LET r == next(input)
    IN  IF ~r.ok THEN r ELSE IF is_digit(r.val) THEN Ok(Unit, r.input) ELSE Err("Syntax")

\* the digits at the start of the input
leading_digits(input) == Take(input, Len(input) - Len(advance_while_digit(input)))

RECURSIVE strip_leading_zeros(_)
strip_leading_zeros(ds) ==
    IF ds # <<>> /\ Head(ds) = 0 THEN strip_leading_zeros(Tail(ds)) ELSE ds

RECURSIVE strip_trailing_zeros(_)
strip_trailing_zeros(ds) ==
    IF ds # <<>> /\ ds[Len(ds)] = 0 THEN strip_trailing_zeros(Take(ds, Len(ds) - 1)) ELSE ds

\* the number written by ascii digits; beyond four digits it only matters that it is huge
RECURSIVE decimal_value(_)
decimal_value(ds) ==
    IF ds = <<>> THEN 0
    ELSE IF Len(ds) > 4 THEN 9999
    ELSE decimal_value(Take(ds, Len(ds) - 1)) * 10 + (ds[Len(ds)] - 48)

\* strtod on a literal of the json number grammar: the nearest f64.  The literal is
\* read as sign, digits and decimal exponent; what is beyond the largest finite f64 is
\* an infinity, what is below the smallest subnormal is a zero, and the sign is kept.
strtod(literal) ==
    LET neg == literal # <<>> /\ Head(literal) = 45
        body == IF neg THEN Tail(literal) ELSE literal
        int == leading_digits(body)
        afterInt == Drop(body, Len(int))
        hasFrac == afterInt # <<>> /\ Head(afterInt) = 46
        frac == IF hasFrac THEN leading_digits(Tail(afterInt)) ELSE <<>>
        afterFrac == IF hasFrac THEN Drop(afterInt, 1 + Len(frac)) ELSE afterInt
        hasExp == afterFrac # <<>> /\ Head(afterFrac) \in {69, 101}
        expNeg == hasExp /\ Len(afterFrac) >= 2 /\ afterFrac[2] = 45
        expSigned == hasExp /\ Len(afterFrac) >= 2 /\ afterFrac[2] \in {43, 45}
        expDigits == IF hasExp THEN Drop(afterFrac, IF expSigned THEN 2 ELSE 1) ELSE <<>>
        exp == IF expNeg THEN 0 - decimal_value(expDigits) ELSE decimal_value(expDigits)
        all == [i \in 1..(Len(int) + Len(frac)) |->
                   (IF i <= Len(int) THEN int[i] ELSE frac[i - Len(int)]) - 48]
        nonzero == strip_leading_zeros(all)
        digits == strip_trailing_zeros(nonzero)
        n == Len(int) - (Len(all) - Len(nonzero)) + exp
        zero == IF neg THEN NegZeroBits ELSE <<0, 0, 0, 0, 0, 0, 0, 0>>
    IN  IF digits = <<>> THEN Some(zero)
        ELSE IF n > 309 THEN Some(IF neg THEN NegInfBits ELSE InfBits)
        ELSE IF n < -323 THEN Some(zero)
        ELSE Some((CHOOSE r \in FloatTable :
                        r.neg = neg /\ r.digits = digits /\ r.n = n).bits)

\* parse_number: `.`, followed by many1 digits
number_fraction(input) ==
    IF input # <<>> /\ Head(input) = 46
    THEN LET r == expect_pred_digit(Tail(input))
         IN  IF ~r.ok THEN r ELSE Ok(Unit, advance_while_digit(r.input))
    ELSE Ok(Unit, input)

\* parse_number: `e` or `E`, followed by an optional sign and many1 digits
number_exponent(input) ==
    IF input # <<>> /\ Head(input) \in {69, 101}
    THEN LET i1 == Tail(input)
         IN  IF i1 = <<>> THEN Err("UnexpectedEndOfInput")
             ELSE LET i2 == IF Head(i1) = 43 \/ Head(i1) = 45 THEN Tail(i1) ELSE i1
                      r == expect_pred_digit(i2)
                  IN  IF ~r.ok THEN r ELSE Ok(Unit, advance_while_digit(r.input))
    ELSE Ok(Unit, input)

\* Deserializer::parse_number
json_parse_number(input) ==
    IF input = <<>> THEN Err("ExpectedNumber")
    ELSE LET i1 == IF Head(input) = 45 THEN Tail(input) ELSE input
             first == next(i1)
         IN  IF ~first.ok THEN first
             ELSE IF ~is_digit(first.val) THEN Err("ExpectedNumber")
             ELSE LET i2 == IF first.val = 48 THEN first.input
                            ELSE advance_while_digit(first.input)
                      fr == number_fraction(i2)
                  IN  IF ~fr.ok THEN fr
                      ELSE LET ex == number_exponent(fr.input)
                           IN  IF ~ex.ok THEN ex
                               ELSE LET parsed == strtod(Take(input, Len(input) - Len(ex.input)))
                                        f == IF parsed.some THEN from_f64(parsed.val) ELSE None
                                    IN  IF f.some THEN Ok(f.val, ex.input)
                                        ELSE Err("InvalidNumber")

\* char::to_digit(16): -1 stands for None
to_digit16(byte) ==
    IF byte >= 48 /\ byte <= 57 THEN byte - 48
    ELSE IF byte >= 97 /\ byte <= 102 THEN byte - 87
    ELSE IF byte >= 65 /\ byte <= 70 THEN byte - 55
    ELSE -1

\* u16::from_str_radix(_, 16) on four bytes: a leading `+` is a sign, every other byte
\* must be a hex digit
from_str_radix16(src) ==
    LET digits == IF Head(src) = 43 THEN Tail(src) ELSE src
        ok == \A i \in DOMAIN digits : to_digit16(digits[i]) >= 0
        val[i \in 0..Len(digits)] ==
            IF i = 0 THEN 0 ELSE val[i - 1] * 16 + to_digit16(digits[i])
    IN  IF ok THEN Some(val[Len(digits)]) ELSE None

is_utf16_leading_surrogate(u) == u >= 55296 /\ u <= 56319
is_utf16_trailing_surrogate(u) == u >= 56320 /\ u <= 57343

\* String::push(char): the utf8 encoding of a code point
encode_utf8(c) ==
    IF c < 128 THEN <<c>>
    ELSE IF c < 2048 THEN <<192 + (c \div 64), 128 + (c % 64)>>
    ELSE IF c < 65536 THEN <<224 + (c \div 4096), 128 + ((c \div 64) % 64), 128 + (c % 64)>>
    ELSE <<240 + (c \div 262144), 128 + ((c \div 4096) % 64), 128 + ((c \div 64) % 64),
           128 + (c % 64)>>

\* Utf16Char::from_tuple((first, Some(second))), first a leading surrogate
utf16_from_tuple(first, second) ==
    IF is_utf16_trailing_surrogate(second)
    THEN Some(65536 + (first - 55296) * 1024 + (second - 56320))
    ELSE None

\* a mutant of char_from_u32: every u16 is a char
char_from_u32_any(u) == Some(u)

\* char::from_u32 on a u16: the surrogates are no chars
char_from_u32(u) == IF u >= 55296 /\ u <= 57343 THEN None ELSE Some(u)

is_continuation(input, i, lo, hi) == Len(input) >= i /\ input[i] >= lo /\ input[i] <= hi

\* Utf8Char::from_slice_start: the length of the well-formed utf8 sequence the input
\* starts with; 0 stands for Err
utf8_from_slice_start(input) ==
    LET b == Head(input)
    IN  IF input = <<>> THEN 0
        ELSE IF b < 128 THEN 1
        ELSE IF b >= 194 /\ b <= 223 THEN
            IF is_continuation(input, 2, 128, 191) THEN 2 ELSE 0
        ELSE IF b >= 224 /\ b <= 239 THEN
            IF /\ is_continuation(input, 2, IF b = 224 THEN 160 ELSE 128,
                                            IF b = 237 THEN 159 ELSE 191)
               /\ is_continuation(input, 3, 128, 191)
            THEN 3 ELSE 0
        ELSE IF b >= 240 /\ b <= 244 THEN
            IF /\ is_continuation(input, 2, IF b = 240 THEN 144 ELSE 128,
                                            IF b = 244 THEN 143 ELSE 191)
               /\ is_continuation(input, 3, 128, 191)
               /\ is_continuation(input, 4, 128, 191)
            THEN 4 ELSE 0
        ELSE 0

\* parse_string: a unicode escape, the input being what follows `\u`
unicode_escape(input) ==
    IF Len(input) < 4 THEN Err("InvalidStringContent")
    ELSE LET code_point == from_str_radix16(Take(input, 4))
             i1 == Drop(input, 4)
         IN  IF ~code_point.some THEN Err("InvalidStringContent")
             ELSE IF is_utf16_leading_surrogate(code_point.val)
             THEN LET e1 == expect_err(i1, 92, "InvalidStringContent")
                      e2 == expect_err(e1.input, 117, "InvalidStringContent")
                  IN  IF ~e1.ok THEN e1
                      ELSE IF ~e2.ok THEN e2
                      ELSE IF Len(e2.input) < 4 THEN Err("InvalidStringContent")
                      ELSE LET code_point2 == from_str_radix16(Take(e2.input, 4))
                               c == IF code_point2.some
                                    THEN utf16_from_tuple(code_point.val, code_point2.val)
                                    ELSE None
                           IN  \* the four digits of the second escape stay in the input
                               IF c.some THEN Ok(encode_utf8(c.val), e2.input)
                               ELSE Err("InvalidStringContent")
             ELSE LET c == char_from_u32(code_point.val)
                  IN  IF c.some THEN Ok(encode_utf8(c.val), i1)
                      ELSE Err("InvalidStringContent")

\* parse_string: an escape sequence, the input being what follows `\`
escape_sequence(input) ==
    LET r == next(input)
    IN  IF ~r.ok THEN r
        ELSE IF r.val = 34 THEN Ok(<<34>>, r.input)
        ELSE IF r.val = 92 THEN Ok(<<92>>, r.input)
        ELSE IF r.val = 47 THEN Ok(<<47>>, r.input)
        ELSE IF r.val = 98 THEN Ok(<<8>>, r.input)
        ELSE IF r.val = 102 THEN Ok(<<12>>, r.input)
        ELSE IF r.val = 110 THEN Ok(<<10>>, r.input)
        ELSE IF r.val = 114 THEN Ok(<<13>>, r.input)
        ELSE IF r.val = 116 THEN Ok(<<9>>, r.input)
        ELSE IF r.val = 117 THEN unicode_escape(r.input)
        ELSE Err("InvalidStringContent")

\* a mutant of is_control_byte: 0x1F passes as a regular byte
is_control_byte_below_1f(byte) == byte < 31

\* parse_string: 0x00...0x1F, the control code points must be escaped
is_control_byte(byte) == byte <= 31

\* parse_string: the loop
RECURSIVE parse_string_loop(_, _)
parse_string_loop(input, decoded) ==
    IF input = <<>> THEN Err("UnexpectedEndOfInput")
    ELSE IF Head(input) = 34 THEN Ok(decoded, Tail(input))
    ELSE IF Head(input) = 92 THEN
        LET r == escape_sequence(Tail(input))
        IN  IF ~r.ok THEN r ELSE parse_string_loop(r.input, decoded \o r.val)
    ELSE IF is_control_byte(Head(input)) THEN Err("InvalidStringContent")
    ELSE LET n == utf8_from_slice_start(input)
         IN  IF n = 0 THEN Err("InvalidStringContent")
             ELSE parse_string_loop(Drop(input, n), decoded \o Take(input, n))

\* Deserializer::parse_string
json_parse_string(input) ==
    LET r == expect_err(input, 34, "ExpectedString")
    IN  IF ~r.ok THEN r ELSE parse_string_loop(r.input, <<>>)

\* HashMap::insert
hash_insert(m, key, val) ==
    [k \in DOMAIN m \cup {key} |-> IF k = key THEN val ELSE m[k]]

\* a mutant of has_key: no key is ever known
has_key_never(m, key) == FALSE

\* ObjectAccessState for &HashMap: contains_key
has_key(m, key) == key \in DOMAIN m

\* the `?` operator: an Err is returned as it is, an Ok is handed on
Try(r, Continue(_)) == IF r.ok THEN Continue(r) ELSE r

RECURSIVE json_deserialize_any(_), json_visit_array(_, _, _), json_visit_object(_, _, _)

\* de::Deserializer::deserialize_any, with ValueVisitor as the visitor
json_deserialize_any(input) ==
    Try(peek_ws(input), LAMBDA p :
        IF p.val = 110 THEN
            IF IsPrefix(<<117, 108, 108>>, Tail(p.input)) THEN Ok(Null, Drop(p.input, 4))
            ELSE Err("Syntax")
        ELSE IF p.val = 102 THEN
            IF IsPrefix(<<97, 108, 115, 101>>, Tail(p.input))
            THEN Ok(Bool(FALSE), Drop(p.input, 5))
            ELSE Err("Syntax")
        ELSE IF p.val = 116 THEN
            IF IsPrefix(<<114, 117, 101>>, Tail(p.input)) THEN Ok(Bool(TRUE), Drop(p.input, 4))
            ELSE Err("Syntax")
        ELSE IF p.val = 34 THEN
            Try(json_parse_string(p.input), LAMBDA r : Ok(String(r.val), r.input))
        ELSE IF p.val = 91 THEN
            \* deserialize_array
            Try(expect_err(p.input, 91, "ExpectedArray"), LAMBDA open :
            Try(json_visit_array(open.input, TRUE, <<>>), LAMBDA v :
            Try(expect_ws_err(v.input, 93, "Syntax"), LAMBDA close :
                Ok(v.val, close.input))))
        ELSE IF p.val = 123 THEN
            \* deserialize_object
            Try(expect_err(p.input, 123, "ExpectedObject"), LAMBDA open :
            Try(json_visit_object(open.input, TRUE, <<>>), LAMBDA v :
            Try(expect_ws_err(v.input, 125, "Syntax"), LAMBDA close :
                Ok(v.val, close.input))))
        ELSE IF p.val = 45 \/ is_digit(p.val) THEN
            Try(json_parse_number(p.input), LAMBDA r : Ok(Float(r.val), r.input))
        ELSE Err("Syntax"))

\* ValueVisitor::visit_array: the loop over ArrayAccess::next_element_seed
json_visit_array(input, first, v) ==
    Try(peek_ws(input), LAMBDA p :
        IF p.val = 93 THEN Ok(Array(v), p.input)
        ELSE
        Try(IF first THEN p ELSE expect_ws_err(p.input, 44, "Syntax"), LAMBDA comma :
        Try(peek_ws(comma.input), LAMBDA ws :
        Try(json_deserialize_any(ws.input), LAMBDA inner :
            json_visit_array(inner.input, FALSE, Append(v, inner.val))))))

\* ValueVisitor::visit_object: the loop over ObjectAccess::next_entry_seed(&m, _), which
\* is next_key_seed, then next_value_seed
json_visit_object(input, first, m) ==
    Try(peek_ws(input), LAMBDA p :
        IF p.val = 125 THEN Ok(Object(m), p.input)
        ELSE
        Try(IF first THEN p ELSE expect_ws_err(p.input, 44, "Syntax"), LAMBDA comma :
        Try(peek_ws(comma.input), LAMBDA ws :
        Try(json_parse_string(ws.input), LAMBDA key :
            IF has_key(m, key.val) THEN Err("DuplicateKey")
            ELSE
            Try(expect_ws_err(key.input, 58, "Syntax"), LAMBDA colon :
            Try(peek_ws(colon.input), LAMBDA ws2 :
            Try(json_deserialize_any(ws2.input), LAMBDA val :
                json_visit_object(val.input, FALSE, hash_insert(m, key.val, val.val)))))))))

\* Deserializer::end
json_end(input) ==
    LET p == peek_ws(input)
    IN  IF p.ok THEN Err("TrailingCharacters")
        ELSE IF p.err = "UnexpectedEndOfInput" THEN Ok(Unit, <<>>)
        ELSE p

\* json::from_slice::<Value>
json_from_slice(input) ==
    LET r == json_deserialize_any(input)
        e == json_end(r.input)
    IN  IF ~r.ok THEN r
        ELSE IF ~e.ok THEN e
        ELSE Ok(r.val, <<>>)

---------------------------------------------------------------------------
(* cbor/ser.rs: the cbor serializer.  A Result of the serializer is Ok with *)
(* the writer's bytes, or Err.                                              *)

Utf8String == 96
ArrayMajor == 128
MapMajor == 160

Written(writer) == [ok |-> TRUE, writer |-> writer]

\* a usize below 2^31 as a u64: its 8 bytes, most significant first
u64_of(n) ==
    <<0, 0, 0, 0, (n \div 16777216) % 256, (n \div 65536) % 256, (n \div 256) % 256, n % 256>>

\* a mutant of write_len: the bytes of a length field are written least significant first
write_len_little_endian(writer, length, major) ==
    IF length <= 23 THEN writer \o <<major + length>>
    ELSE IF length <= 255 THEN writer \o <<major + 24, length>>
    ELSE IF length <= 65535 THEN writer \o <<major + 25, length % 256, length \div 256>>
    ELSE writer \o <<major + 26>> \o
            [i \in 1..4 |-> u64_of(length)[9 - i]]

\* CborSerializer::write_len; transmute(to_be(_)) puts the most significant byte first on
\* every target
write_len(writer, length, major) ==
    IF length <= 23 THEN writer \o <<major + length>>
    ELSE IF length <= 255 THEN writer \o <<major + 24, length>>
    ELSE IF length <= 65535 THEN writer \o <<major + 25, length \div 256, length % 256>>
    ELSE IF length \div 65536 <= 65535 THEN
        writer \o <<major + 26>> \o SubSeq(u64_of(length), 5, 8)
    ELSE writer \o <<major + 27>> \o u64_of(length)

\* serialize_f64 of the cbor serializer
cbor_serialize_f64(writer, v) ==
    IF is_valid(v) THEN Written(writer \o <<251>> \o v) ELSE Err("InvalidFloat")

\* serialize_str of the cbor serializer
cbor_serialize_str(writer, v) == Written(write_len(writer, Len(v), Utf8String) \o v)

\* impl Serialize for Value, on a CborSerializer
RECURSIVE cbor_serialize(_, _), cbor_serialize_elements(_, _), cbor_serialize_entries(_, _)
cbor_serialize(v, writer) ==
    CASE v.t = "Null" -> Written(writer \o <<246>>)
      [] v.t = "Bool" -> Written(writer \o (IF v.b THEN <<245>> ELSE <<244>>))
      [] v.t = "Float" -> cbor_serialize_f64(writer, v.f)
      [] v.t = "String" -> cbor_serialize_str(writer, v.s)
      [] v.t = "Array" ->
            cbor_serialize_elements(v.v, write_len(writer, Len(v.v), ArrayMajor))
      [] v.t \in {"Object", "ObjectOrdered"} ->
            cbor_serialize_entries(entries_of(v), write_len(writer, Len(entries_of(v)), MapMajor))

\* the loop over SerializeSeq::serialize_element
cbor_serialize_elements(vs, writer) ==
    IF vs = <<>> THEN Written(writer)
    ELSE Try(cbor_serialize(Head(vs), writer), LAMBDA r :
             cbor_serialize_elements(Tail(vs), r.writer))

\* the loop over SerializeMap::serialize_entry
cbor_serialize_entries(es, writer) ==
    IF es = <<>> THEN Written(writer)
    ELSE Try(cbor_serialize_str(writer, Head(es).k), LAMBDA k :
         Try(cbor_serialize(Head(es).v, k.writer), LAMBDA r :
             cbor_serialize_entries(Tail(es), r.writer)))

\* cbor::to_vec
cbor_to_vec(v) == cbor_serialize(v, <<>>)

---------------------------------------------------------------------------
(* data/cbor/de.rs: the cbor deserializer.  A length is a u64, kept as its  *)
(* 8 bytes, most significant first.                                         *)

\* stands for every usize of 2^24 and more: no input of the model is that long
HugeLen == 256 * 65536

\* len <<= 8; len |= byte
shift_in(length, byte) == Tail(length) \o <<byte>>

swap_bytes(length) == [i \in 1..8 |-> length[9 - i]]

\* u64::from_be: the identity on a big-endian target, a byte swap on a little-endian one
from_be(length) == IF cfg.littleEndian THEN swap_bytes(length) ELSE length

\* a mutant of from_be: the bytes are swapped on every target
from_be_always_swaps(length) == swap_bytes(length)

\* len as usize, for comparing and counting
as_usize(length) ==
    IF \E i \in 1..5 : length[i] # 0 THEN HugeLen
    ELSE length[6] * 65536 + length[7] * 256 + length[8]

\* decode_len: for _ in 0..n { len <<= 8; len |= self.next()? as u64; }
RECURSIVE read_len(_, _, _)
read_len(input, n, length) ==
    IF n = 0 THEN Ok(length, input)
    ELSE Try(next(input), LAMBDA b : read_len(b.input, n - 1, shift_in(length, b.val)))

\* Deserializer::decode_len
decode_len(input, tag) ==
    LET t == tag % 32
    IN  IF t <= 23 THEN Ok(u64_of(t), input)
        ELSE IF t = 24 THEN Try(next(input), LAMBDA b : Ok(u64_of(b.val), b.input))
        ELSE IF t = 25 THEN
            Try(read_len(input, 2, u64_of(0)), LAMBDA r : Ok(from_be(r.val), r.input))
        ELSE IF t = 26 THEN
            Try(read_len(input, 4, u64_of(0)), LAMBDA r : Ok(from_be(r.val), r.input))
        ELSE IF t = 27 THEN
            Try(read_len(input, 8, u64_of(0)), LAMBDA r : Ok(from_be(r.val), r.input))
        ELSE Err("panic")

\* Deserializer::parse_number
cbor_parse_number(input) ==
    Try(next(input), LAMBDA tag :
        IF tag.val = 251
        THEN Try(read_len(tag.input, 8, u64_of(0)), LAMBDA raw_bits :
                 IF from_f64(raw_bits.val).some
                 THEN Ok(from_f64(raw_bits.val).val, raw_bits.input)
                 ELSE Err("InvalidNumber"))
        ELSE Err("ExpectedNumber"))

\* std::str::from_utf8(s).is_ok(): every byte that is no continuation byte starts a
\* well-formed sequence, which ends where the next such byte or the end is
from_utf8_is_ok(str) ==
    LET continues(i) == str[i] >= 128 /\ str[i] <= 191
    IN  \A i \in DOMAIN str :
            IF continues(i) THEN i > 1
            ELSE LET n == utf8_from_slice_start(Drop(str, i - 1))
                 IN  n > 0 /\ (i + n <= Len(str) => ~continues(i + n))

\* Deserializer::parse_str
cbor_parse_str(input) ==
    Try(next(input), LAMBDA tag :
        IF tag.val >= 96 /\ tag.val <= 123
        THEN Try(decode_len(tag.input, tag.val), LAMBDA length :
                 IF Len(length.input) < as_usize(length.val) THEN Err("InvalidLength")
                 ELSE IF from_utf8_is_ok(Take(length.input, as_usize(length.val)))
                      THEN Ok(Take(length.input, as_usize(length.val)),
                              Drop(length.input, as_usize(length.val)))
                      ELSE Err("InvalidStringContent"))
        ELSE Err("ExpectedString"))

\* a mutant of is_str_tag: the additional infos 28..31 pass as well
is_str_tag_to_31(byte) == byte >= 96 /\ byte <= 127

\* deserialize_any: 0b011_00000...0b011_11011
is_str_tag(byte) == byte >= 96 /\ byte <= 123

\* deserialize_any: 0b100_00000...0b100_11011
is_array_tag(byte) == byte >= 128 /\ byte <= 155

\* deserialize_any: 0b101_00000...0b101_11011
is_map_tag(byte) == byte >= 160 /\ byte <= 187

RECURSIVE cbor_deserialize_any(_), cbor_visit_array(_, _, _), cbor_visit_object(_, _, _)

\* de::Deserializer::deserialize_any of the cbor deserializer, with the visitor of Value
cbor_deserialize_any(input) ==
    IF input = <<>> THEN Err("UnexpectedEndOfInput")
    ELSE IF Head(input) = 244 THEN Ok(Bool(FALSE), Tail(input))
    ELSE IF Head(input) = 245 THEN Ok(Bool(TRUE), Tail(input))
    ELSE IF Head(input) = 246 THEN Ok(Null, Tail(input))
    ELSE IF Head(input) = 251 THEN
        Try(cbor_parse_number(input), LAMBDA r : Ok(Float(r.val), r.input))
    ELSE IF is_str_tag(Head(input)) THEN
        Try(cbor_parse_str(input), LAMBDA r : Ok(String(r.val), r.input))
    ELSE IF is_array_tag(Head(input)) THEN
        \* deserialize_array
        Try(decode_len(Tail(input), Head(input)), LAMBDA length :
            cbor_visit_array(length.input, as_usize(length.val), <<>>))
    ELSE IF is_map_tag(Head(input)) THEN
        \* deserialize_object
        Try(decode_len(Tail(input), Head(input)), LAMBDA length :
            cbor_visit_object(length.input, as_usize(length.val), <<>>))
    ELSE Err("ForbiddenType")

\* visit_array: the loop over ArrayAccess::next_element_seed
cbor_visit_array(input, length, v) ==
    IF length = 0 THEN Ok(Array(v), input)
    ELSE Try(cbor_deserialize_any(input), LAMBDA inner :
             cbor_visit_array(inner.input, length - 1, Append(v, inner.val)))

\* visit_object: the loop over ObjectAccess::next_entry_seed(&m, _), which is
\* next_key_seed, then next_value_seed
cbor_visit_object(input, length, m) ==
    IF length = 0 THEN Ok(Object(m), input)
    ELSE Try(cbor_parse_str(input), LAMBDA key :
             IF has_key(m, key.val) THEN Err("DuplicateKey")
             ELSE Try(cbor_deserialize_any(key.input), LAMBDA val :
                      cbor_visit_object(val.input, length - 1,
                                        hash_insert(m, key.val, val.val))))

\* a mutant of cbor_end: one trailing byte is let through
cbor_end_but_one(input) == IF Len(input) <= 1 THEN Ok(Unit, <<>>) ELSE Err("TrailingBytes")

\* Deserializer::end of the cbor deserializer
cbor_end(input) == IF Len(input) = 0 THEN Ok(Unit, <<>>) ELSE Err("TrailingBytes")

\* cbor::from_slice::<Value>
cbor_from_slice(input) ==
    Try(cbor_deserialize_any(input), LAMBDA r :
        Try(cbor_end(r.input), LAMBDA e : Ok(r.val, <<>>)))

---------------------------------------------------------------------------
(* The well-formed values the encoders are exercised with: every float is   *)
(* valid, every string is utf8, and an Object is a HashMap, whose keys are  *)
(* distinct by construction.                                                *)

\* nesting depth of the values
MaxDepth == 2

\* "", "a", "a\"b", "\\", "\n", "\u0001", "\u001f", DEL, e-acute, the euro sign,
\* U+1F600, "10"
Strings == {
    <<>>, <<97>>, <<97, 34, 98>>, <<92>>, <<10>>, <<1>>, <<31>>, <<127>>,
    <<195, 169>>, <<226, 130, 172>>, <<240, 159, 152, 128>>, <<49, 48>>, <<32, 44, 58>>
}

\* the keys of the objects: "a", "1" and "\""
Keys == {<<97>>, <<49>>, <<34>>}

\* the orders a HashMap may iterate the keys in
HashOrders ==
    {o \in [1..Cardinality(Keys) -> Keys] : \A i, j \in DOMAIN o : i # j => o[i] # o[j]}

Prims ==
    {Null, Bool(TRUE), Bool(FALSE)}
        \cup {Float(r.bits) : r \in FloatTable}
        \cup {String(x) : x \in Strings}

\* a HashMap holding the given pairs
HashMapOf(pairs) ==
    [k \in {pairs[i][1] : i \in DOMAIN pairs} |->
        LET i == CHOOSE j \in DOMAIN pairs : pairs[j][1] = k IN pairs[i][2]]

\* the arrays and objects holding a value of S
Wrap(S) ==
    {Array(<<>>), Object(HashMapOf(<<>>))}
        \cup {Array(<<x>>) : x \in S}
        \cup {Array(<<Null, x>>) : x \in S}
        \cup {Object(HashMapOf(<<<<<<97>>, x>>>>)) : x \in S}
        \cup {Object(HashMapOf(<<<<<<49>>, Null>>, <<<<97>>, x>>>>)) : x \in S}
        \cup {Object(HashMapOf(<<<<<<34>>, x>>, <<<<97>>, Bool(TRUE)>>, <<<<49>>, Null>>>>)) : x \in S}

RECURSIVE ValuesOfDepth(_)
ValuesOfDepth(d) == IF d = 0 THEN Prims ELSE Prims \cup Wrap(ValuesOfDepth(d - 1))

Values == ValuesOfDepth(MaxDepth)

---------------------------------------------------------------------------
(* A value is encoded by json::to_vec, in signing or in compact mode, and   *)
(* the bytes are handed to json::from_slice.                                *)

InitJson ==
    /\ map = EmptyMap /\ map2 = EmptyMap
    /\ firstSeen = <<>>
    /\ bound = [k \in {} |-> Null]
    /\ ret = None
    /\ ninserts = 0
    /\ pc = "encode"
    /\ \E compact \in BOOLEAN, o \in HashOrders :
          cfg = [codec |-> "json", compact |-> compact, hashOrder |-> o]
    /\ value \in Values
    /\ bytes = <<>> /\ bytes2 = <<>>
    /\ result = None

\* bytes = to_vec(&value, compact)
JsonEncode ==
    /\ pc = "encode"
    /\ bytes' = json_to_vec(value, cfg.compact)
    /\ pc' = "decode"
    /\ UNCHANGED <<map, map2, firstSeen, bound, ret, ninserts, value, bytes2, result, cfg>>

\* result = from_slice::<Value>(&bytes)
JsonDecode ==
    /\ pc = "decode"
    /\ result' = json_from_slice(bytes)
    /\ pc' = "done"
    /\ UNCHANGED <<map, map2, firstSeen, bound, ret, ninserts, value, bytes, bytes2, cfg>>

NextJson == JsonEncode \/ JsonDecode

SpecJson == InitJson /\ [][NextJson]_vars

---------------------------------------------------------------------------
(* C3 *)

\* for every byte of a json text, whether it lies outside the string literals (the
\* quotes of a literal count as inside)
RECURSIVE outside_strings(_, _, _)
outside_strings(text, inString, escaped) ==
    IF text = <<>> THEN <<>>
    ELSE IF ~inString
         THEN <<Head(text) # 34>> \o outside_strings(Tail(text), Head(text) = 34, FALSE)
         ELSE <<FALSE>> \o outside_strings(Tail(text),
                                           escaped \/ Head(text) # 34,
                                           ~escaped /\ Head(text) = 92)

\* how often a structural byte of the set occurs in the text
count_outside(text, set) ==
    LET outside == outside_strings(text, FALSE, FALSE)
    IN  Cardinality({i \in DOMAIN text : outside[i] /\ text[i] \in set})

\* the arrays and objects of a value, the value itself included
RECURSIVE collections_of(_)
collections_of(v) ==
    IF v.t = "Array"
    THEN <<v>> \o Concat([i \in DOMAIN v.v |-> collections_of(v.v[i])])
    ELSE IF v.t = "Object"
    THEN LET ks == CHOOSE o \in [1..Cardinality(DOMAIN v.m) -> DOMAIN v.m] :
                       \A i, j \in DOMAIN o : i # j => o[i] # o[j]
         IN  <<v>> \o Concat([i \in DOMAIN ks |-> collections_of(v.m[ks[i]])])
    ELSE <<>>

size_of(c) == IF c.t = "Array" THEN Len(c.v) ELSE Cardinality(DOMAIN c.m)

RECURSIVE sum_seq(_)
sum_seq(ns) == IF ns = <<>> THEN 0 ELSE Head(ns) + sum_seq(Tail(ns))

\* C3: in signing mode, every non-empty array or object at depth d has a line break
\* after its opening bracket, each element or entry on its own line behind exactly
\* 2*(d+1) spaces, a comma after every element but the last, a colon and exactly one
\* space between key and value, and its closing bracket on its own line behind exactly
\* 2*d spaces; an empty array or object is "[]" or "{}"; there is no other whitespace.
C3_SigningLayout ==
    (pc # "encode" /\ ~cfg.compact) =>
        LET out == bytes
            n == Len(out)
            outside == outside_strings(out, FALSE, FALSE)
            opened(i) == Cardinality({j \in 1..(i - 1) : outside[j] /\ out[j] \in {91, 123}})
            closed(i) == Cardinality({j \in 1..(i - 1) : outside[j] /\ out[j] \in {93, 125}})
            depth(i) == opened(i) - closed(i)
            at(i) == IF i >= 1 /\ i <= n THEN out[i] ELSE -1
            spaces_from(i) ==
                CHOOSE k \in 0..n : (\A j \in i..(i + k - 1) : at(j) = 32) /\ at(i + k) # 32
            spaces_upto(i) ==
                CHOOSE k \in 0..n : (\A j \in (i - k + 1)..i : at(j) = 32) /\ at(i - k) # 32
            cs == collections_of(value)
            nonempty == SelectSeq(cs, LAMBDA c : size_of(c) > 0)
        IN  /\ \A i \in 1..n : outside[i] =>
                /\ out[i] \in {91, 123} =>
                      \/ at(i + 1) = out[i] + 2
                      \/ /\ at(i + 1) = 10
                         /\ spaces_from(i + 2) = 2 * (depth(i) + 1)
                         /\ at(i + 2 + spaces_from(i + 2)) \notin {10, 44, 93, 125}
                /\ out[i] = 44 =>
                      /\ at(i + 1) = 10
                      /\ spaces_from(i + 2) = 2 * depth(i)
                      /\ at(i + 2 + spaces_from(i + 2)) \notin {10, 44, 93, 125}
                /\ out[i] \in {93, 125} =>
                      \/ at(i - 1) = out[i] - 2
                      \/ /\ spaces_upto(i - 1) = 2 * (depth(i) - 1)
                         /\ at(i - 1 - spaces_upto(i - 1)) = 10
                         /\ at(i - 2 - spaces_upto(i - 1)) \notin {10, 32, 44, 58, 91, 123}
                /\ out[i] = 58 => at(i + 1) = 32 /\ at(i + 2) \notin {10, 32}
                /\ out[i] = 10 =>
                      \/ at(i - 1) \in {44, 91, 123}
                      \/ at(i + 1 + spaces_from(i + 1)) \in {93, 125}
                /\ out[i] = 32 =>
                      \/ at(i - 1) = 58
                      \/ at(i - 1 - spaces_upto(i - 1)) = 10
            /\ count_outside(out, {44}) = sum_seq([i \in DOMAIN nonempty |-> size_of(nonempty[i]) - 1])
            /\ count_outside(out, {10}) = sum_seq([i \in DOMAIN nonempty |-> size_of(nonempty[i]) + 1])
            /\ count_outside(out, {58}) =
                  sum_seq([i \in DOMAIN cs |-> IF cs[i].t = "Object" THEN size_of(cs[i]) ELSE 0])
            /\ count_outside(out, {91, 123}) = Len(cs)

\* [null, {"1": null, "a": true}] was written in signing mode, over seven lines
C3_Witness ==
    /\ pc = "decode" /\ ~cfg.compact
    /\ value = Array(<<Null, Object(HashMapOf(<<<<<<49>>, Null>>, <<<<97>>, Bool(TRUE)>>>>))>>)
    /\ bytes = <<91, 10, 32, 32, 110, 117, 108, 108, 44, 10, 32, 32, 123, 10,
                 32, 32, 32, 32, 34, 49, 34, 58, 32, 110, 117, 108, 108, 44, 10,
                 32, 32, 32, 32, 34, 97, 34, 58, 32, 116, 114, 117, 101, 10,
                 32, 32, 125, 10, 93>>

---------------------------------------------------------------------------
(* C4 *)

\* C4: for every well-formed Value and both text modes, from_slice on the output of
\* to_vec returns Ok of a value equal to the one encoded.
C4_TextRoundTrip ==
    pc = "done" => (result.ok /\ value_eq(result.val, value))

\* [null,{"\"":1e-7,"a":true,"1":null}] was written in compact mode and decoded
C4_Witness ==
    /\ pc = "done" /\ cfg.compact /\ result.ok
    /\ value = Array(<<Null, Object(HashMapOf(<<
                   <<<<34>>, Float(<<62, 122, 215, 242, 154, 188, 175, 72>>)>>,
                   <<<<97>>, Bool(TRUE)>>,
                   <<<<49>>, Null>>>>))>>)
    /\ bytes = <<91, 110, 117, 108, 108, 44, 123, 34, 92, 34, 34, 58, 49, 101, 45, 55, 44,
                 34, 97, 34, 58, 116, 114, 117, 101, 44, 34, 49, 34, 58,
                 110, 117, 108, 108, 125, 93>>

---------------------------------------------------------------------------
(* A value is encoded by cbor::to_vec and the bytes are handed to           *)
(* cbor::from_slice, on a little-endian or on a big-endian target.          *)

\* strings and arrays around the lengths where the length field grows
LongValues ==
    {String(Repeat(<<97>>, n)) : n \in {23, 24, 255, 256}}
        \cup {Array(Repeat(<<Null>>, n)) : n \in {23, 24}}

CborValues == Values \cup LongValues

InitCbor ==
    /\ map = EmptyMap /\ map2 = EmptyMap
    /\ firstSeen = <<>>
    /\ bound = [k \in {} |-> Null]
    /\ ret = None
    /\ ninserts = 0
    /\ pc = "encode"
    /\ \E le \in BOOLEAN, o \in HashOrders :
          cfg = [codec |-> "cbor", littleEndian |-> le, hashOrder |-> o]
    /\ value \in CborValues
    /\ bytes = <<>> /\ bytes2 = <<>>
    /\ result = None

\* bytes = to_vec(&value)
CborEncode ==
    /\ pc = "encode"
    /\ LET r == cbor_to_vec(value)
       IN  IF r.ok THEN bytes' = r.writer /\ pc' = "decode" /\ result' = result
                   ELSE bytes' = bytes /\ pc' = "failed" /\ result' = r
    /\ UNCHANGED <<map, map2, firstSeen, bound, ret, ninserts, value, bytes2, cfg>>

\* result = from_slice::<Value>(&bytes)
CborDecode ==
    /\ pc = "decode"
    /\ result' = cbor_from_slice(bytes)
    /\ pc' = "done"
    /\ UNCHANGED <<map, map2, firstSeen, bound, ret, ninserts, value, bytes, bytes2, cfg>>

NextCbor == CborEncode \/ CborDecode

SpecCbor == InitCbor /\ [][NextCbor]_vars

---------------------------------------------------------------------------
(* C5 *)

\* C5: for every well-formed Value, from_slice on the output of the cbor to_vec
\* returns Ok of a value equal to the one encoded, whatever length field the strings,
\* arrays and objects need.
C5_BinaryRoundTrip ==
    pc = "done" => (result.ok /\ value_eq(result.val, value))

---------------------------------------------------------------------------
(* decode_len is called on the header of a string, an array or a map, on a  *)
(* little-endian or on a big-endian target.                                 *)

\* the tags decode_len is called with
LenTags == (96..123) \cup (128..155) \cup (160..187)

\* the bytes after the tag
LenPayloads == {
    <<>>, <<0>>, <<1>>, <<24>>, <<255>>, <<1, 0>>, <<0, 1>>, <<1, 0, 97>>,
    <<0, 0, 1, 0>>, <<1, 0, 0, 0>>, <<0, 0, 0, 0, 0, 0, 1, 0>>,
    <<1, 2, 3, 4, 5, 6, 7, 8>>, <<1, 2, 3, 4, 5, 6, 7, 8, 9>>
}

InitLen ==
    /\ map = EmptyMap /\ map2 = EmptyMap
    /\ firstSeen = <<>>
    /\ bound = [k \in {} |-> Null]
    /\ ret = None
    /\ ninserts = 0
    /\ pc = "decode"
    /\ \E le \in BOOLEAN : cfg = [codec |-> "cbor", littleEndian |-> le]
    /\ value = Null
    /\ \E tag \in LenTags, payload \in LenPayloads : bytes = <<tag>> \o payload
    /\ bytes2 = <<>>
    /\ result = None

\* let tag = self.next()?; result = self.decode_len(tag)
DecodeLen ==
    /\ pc = "decode"
    /\ result' = decode_len(Tail(bytes), Head(bytes))
    /\ pc' = "done"
    /\ UNCHANGED <<map, map2, firstSeen, bound, ret, ninserts, value, bytes, bytes2, cfg>>

NextLen == DecodeLen

SpecLen == InitLen /\ [][NextLen]_vars

---------------------------------------------------------------------------
(* C9 *)

\* the number of bytes the length field takes after a tag
length_field_size(tag) ==
    IF tag % 32 <= 23 THEN 0
    ELSE IF tag % 32 = 24 THEN 1
    ELSE IF tag % 32 = 25 THEN 2
    ELSE IF tag % 32 = 26 THEN 4
    ELSE 8

\* C9: decode_len returns the additional-info value itself for 0..23, and for 24, 25,
\* 26 and 27 the unsigned integer formed by the next 1, 2, 4 and 8 bytes, the first byte
\* the most significant, and leaves the input behind these bytes.
C9_LengthIsBigEndian ==
    LET tag == Head(bytes)
        n == length_field_size(tag)
        expected == IF n = 0 THEN u64_of(tag % 32)
                    ELSE [i \in 1..8 |-> IF i <= 8 - n THEN 0 ELSE bytes[1 + i - (8 - n)]]
    IN  (pc = "done" /\ Len(bytes) >= 1 + n) =>
            /\ result.ok
            /\ result.val = expected
            /\ result.input = Drop(bytes, 1 + n)

---------------------------------------------------------------------------
(* Bytes of any kind are handed to json::from_slice or to cbor::from_slice. *)
(* The inputs are written down byte by byte, not produced by the encoders.  *)

\* how deep an input is nested inside well-formed arrays and objects
MaxNest == 1

\* json texts: literals and numbers, well-formed or not
JsonLiterals == {
    <<110, 117, 108, 108>>,  \* null
    <<116, 114, 117, 101>>,  \* true
    <<102, 97, 108, 115, 101>>,  \* false
    <<110, 117, 108>>,  \* nul
    <<116, 114, 117>>,  \* tru
    <<102, 97, 108, 115>>,  \* fals
    <<110, 117, 108, 108, 120>>,  \* nullx
    <<32, 110, 117, 108, 108, 32>>,  \*  null 
    <<110, 117, 108, 108, 32, 110, 117, 108, 108>>,  \* null null
    <<>>,  \* (empty)
    <<32>>,  \*  
    <<9, 13, 10>>,  \* <09><0d><0a>
    <<64>>,  \* @
    <<48>>,  \* 0
    <<45, 48>>,  \* -0
    <<45, 48, 46, 48>>,  \* -0.0
    <<45, 48, 101, 53>>,  \* -0e5
    <<49, 101, 57, 57, 57>>,  \* 1e999
    <<45, 49, 101, 57, 57, 57>>,  \* -1e999
    <<49, 101, 45, 57, 57, 57>>,  \* 1e-999
    <<45, 49, 101, 45, 57, 57, 57>>,  \* -1e-999
    <<49>>,  \* 1
    <<45, 49, 46, 53>>,  \* -1.5
    <<49, 48, 48>>,  \* 100
    <<49, 101, 50, 49>>,  \* 1e21
    <<49, 69, 43, 50, 49>>,  \* 1E+21
    <<49, 46, 49>>,  \* 1.1
    <<49, 46, 49, 48>>,  \* 1.10
    <<48, 46, 48, 48, 49>>,  \* 0.001
    <<49, 101, 45, 55>>,  \* 1e-7
    <<48, 46, 48>>,  \* 0.0
    <<48, 101, 48>>,  \* 0e0
    <<48, 49>>,  \* 01
    <<48, 48>>,  \* 00
    <<45>>,  \* -
    <<49, 46>>,  \* 1.
    <<49, 46, 101, 49>>,  \* 1.e1
    <<49, 101>>,  \* 1e
    <<49, 101, 43>>,  \* 1e+
    <<46, 53>>,  \* .5
    <<43, 49>>,  \* +1
    <<45, 49, 46, 53, 120>>  \* -1.5x
}

\* json texts: string literals, well-formed or not
JsonStrings == {
    <<34, 34>>,  \* ""
    <<34, 97, 34>>,  \* "a"
    <<34, 92, 117, 48, 48, 54, 49, 34>>,  \* "\u0061"
    <<34, 92, 110, 34>>,  \* "\n"
    <<34, 92, 117, 48, 48, 48, 97, 34>>,  \* "\u000a"
    <<34, 92, 117, 48, 48, 48, 65, 34>>,  \* "\u000A"
    <<34, 92, 47, 34>>,  \* "\/"
    <<34, 92, 98, 92, 102, 92, 114, 92, 116, 92, 34, 92, 92, 34>>,  \* "\b\f\r\t\"\\"
    <<34, 240, 159, 152, 128, 34>>,  \* "<f0><9f><98><80>"
    <<34, 92, 117, 100, 56, 51, 100, 92, 117, 100, 101, 48, 48, 34>>,  \* "\ud83d\ude00"
    <<34, 92, 117, 68, 56, 51, 68, 92, 117, 68, 69, 48, 48, 120, 34>>,  \* "\uD83D\uDE00x"
    <<34, 92, 117, 100, 56, 51, 100, 34>>,  \* "\ud83d"
    <<34, 92, 117, 100, 101, 48, 48, 34>>,  \* "\ude00"
    <<34, 92, 117, 100, 56, 51, 100, 92, 117, 48, 48, 54, 49, 34>>,  \* "\ud83d\u0061"
    <<34, 92, 117, 100, 56, 51, 100, 120, 34>>,  \* "\ud83dx"
    <<34, 92, 117, 100, 56, 51, 100, 92, 117, 100, 56, 51, 100, 34>>,  \* "\ud83d\ud83d"
    <<34, 92, 117, 43, 48, 54, 49, 34>>,  \* "\u+061"
    <<34, 92, 117, 48, 48, 34>>,  \* "\u00"
    <<34, 92, 117, 48, 48, 103, 49, 34>>,  \* "\u00g1"
    <<34, 92, 120, 34>>,  \* "\x"
    <<34, 92, 117, 48, 48, 48, 48, 34>>,  \* "\u0000"
    <<34, 10, 34>>,  \* "<0a>"
    <<34, 31, 34>>,  \* "<1f>"
    <<34, 0, 34>>,  \* "<00>"
    <<34, 127, 34>>,  \* "<7f>"
    <<34, 195, 169, 34>>,  \* "<c3><a9>"
    <<34, 226, 130, 172, 34>>,  \* "<e2><82><ac>"
    <<34, 195, 40, 34>>,  \* "<c3><28>"
    <<34, 237, 160, 128, 34>>,  \* "<ed><a0><80>"
    <<34, 192, 128, 34>>,  \* "<c0><80>"
    <<34, 244, 144, 128, 128, 34>>,  \* "<f4><90><80><80>"
    <<34, 128, 34>>,  \* "<80>"
    <<34, 226, 130, 34>>,  \* "<e2><82>"
    <<34, 97>>,  \* "a
    <<34, 92>>,  \* "\
    <<34, 97, 34, 120>>  \* "a"x
}

\* json texts: arrays and objects, well-formed or not, none with a repeated key
JsonCollections == {
    <<91, 93>>,  \* []
    <<123, 125>>,  \* {}
    <<91, 32, 93>>,  \* [ ]
    <<123, 32, 125>>,  \* { }
    <<91, 110, 117, 108, 108, 32, 44, 116, 114, 117, 101, 93>>,  \* [null ,true]
    <<91, 110, 117, 108, 108, 44, 93>>,  \* [null,]
    <<91, 44, 93>>,  \* [,]
    <<91, 110, 117, 108, 108, 32, 116, 114, 117, 101, 93>>,  \* [null true]
    <<91, 110, 117, 108, 108>>,  \* [null
    <<91>>,  \* [
    <<93>>,  \* ]
    <<123, 34, 97, 34, 58, 110, 117, 108, 108, 125>>,  \* {"a":null}
    <<123, 32, 34, 97, 34, 32, 58, 32, 110, 117, 108, 108, 32, 44, 32, 34, 98, 34, 32, 58, 32, 116, 114, 117, 101, 32, 125>>,  \* { "a" : null , "b" : true }
    <<123, 34, 97, 34, 58, 110, 117, 108, 108, 44, 125>>,  \* {"a":null,}
    <<123, 34, 97, 34, 125>>,  \* {"a"}
    <<123, 34, 97, 34, 58, 125>>,  \* {"a":}
    <<123, 97, 58, 110, 117, 108, 108, 125>>,  \* {a:null}
    <<123, 34, 97, 34, 58, 110, 117, 108, 108, 32, 34, 98, 34, 58, 110, 117, 108, 108, 125>>,  \* {"a":null "b":null}
    <<123, 34, 97, 34, 58, 110, 117, 108, 108>>,  \* {"a":null
    <<123>>,  \* {
    <<123, 110, 117, 108, 108, 58, 110, 117, 108, 108, 125>>,  \* {null:null}
    <<123, 34, 97, 34, 58, 110, 117, 108, 108, 44, 34, 65, 34, 58, 116, 114, 117, 101, 125>>,  \* {"a":null,"A":true}
    <<123, 34, 97, 34, 58, 110, 117, 108, 108, 44, 34, 98, 34, 58, 123, 34, 97, 34, 58, 116, 114, 117, 101, 125, 125>>,  \* {"a":null,"b":{"a":true}}
    <<91, 123, 34, 97, 34, 58, 110, 117, 108, 108, 125, 44, 123, 34, 97, 34, 58, 110, 117, 108, 108, 125, 93>>,  \* [{"a":null},{"a":null}]
    <<91, 91, 91, 93, 93, 93>>,  \* [[[]]]
    <<123, 34, 34, 58, 123, 34, 34, 58, 123, 125, 125, 125>>  \* {"":{"":{}}}
}

\* json texts: an object, well-formed but for one key written twice, in the same or in
\* another spelling of the same string
JsonRepeatedKey == {
    <<123, 34, 97, 34, 58, 110, 117, 108, 108, 44, 34, 97, 34, 58, 116, 114, 117, 101, 125>>,  \* {"a":null,"a":true}
    <<123, 34, 97, 34, 58, 110, 117, 108, 108, 44, 34, 92, 117, 48, 48, 54, 49, 34, 58, 116, 114, 117, 101, 125>>,  \* {"a":null,"\u0061":true}
    <<123, 34, 92, 117, 48, 48, 54, 49, 34, 58, 110, 117, 108, 108, 44, 34, 97, 34, 58, 116, 114, 117, 101, 125>>,  \* {"\u0061":null,"a":true}
    <<123, 34, 92, 110, 34, 58, 110, 117, 108, 108, 44, 34, 92, 117, 48, 48, 48, 97, 34, 58, 116, 114, 117, 101, 125>>,  \* {"\n":null,"\u000a":true}
    <<123, 34, 34, 58, 110, 117, 108, 108, 44, 34, 34, 58, 116, 114, 117, 101, 125>>,  \* {"":null,"":true}
    <<123, 34, 92, 47, 34, 58, 110, 117, 108, 108, 44, 34, 47, 34, 58, 116, 114, 117, 101, 125>>,  \* {"\/":null,"/":true}
    <<123, 34, 195, 169, 34, 58, 110, 117, 108, 108, 44, 34, 92, 117, 48, 48, 101, 57, 34, 58, 116, 114, 117, 101, 125>>,  \* {"<c3><a9>":null,"\u00e9":true}
    <<123, 34, 92, 117, 48, 48, 69, 57, 34, 58, 110, 117, 108, 108, 44, 34, 92, 117, 48, 48, 101, 57, 34, 58, 116, 114, 117, 101, 125>>,  \* {"\u00E9":null,"\u00e9":true}
    <<123, 34, 240, 159, 152, 128, 34, 58, 110, 117, 108, 108, 44, 34, 92, 117, 100, 56, 51, 100, 92, 117, 100, 101, 48, 48, 34, 58, 116, 114, 117, 101, 125>>,  \* {"<f0><9f><98><80>":null,"\ud83d\ude00":true}
    <<123, 34, 92, 117, 100, 56, 51, 100, 92, 117, 100, 101, 48, 48, 34, 58, 110, 117, 108, 108, 44, 34, 240, 159, 152, 128, 34, 58, 116, 114, 117, 101, 125>>,  \* {"\ud83d\ude00":null,"<f0><9f><98><80>":true}
    <<123, 34, 98, 34, 58, 49, 44, 34, 97, 34, 58, 110, 117, 108, 108, 44, 34, 99, 34, 58, 91, 93, 44, 34, 92, 117, 48, 48, 54, 49, 34, 58, 116, 114, 117, 101, 125>>,  \* {"b":1,"a":null,"c":[],"\u0061":true}
    <<123, 32, 34, 97, 34, 32, 58, 32, 123, 125, 32, 44, 32, 34, 92, 117, 48, 48, 54, 49, 34, 32, 58, 32, 91, 93, 32, 125>>  \* { "a" : {} , "\u0061" : [] }
}

\* cbor: 0xfb and the bits of a float, valid or not
CborFloats == {
    <<251, 0, 0, 0, 0, 0, 0, 0, 0>>,  \* <fb><00><00><00><00><00><00><00><00>
    <<251, 63, 241, 153, 153, 153, 153, 153, 154>>,  \* <fb>?<f1><99><99><99><99><99><9a>
    <<251, 128, 0, 0, 0, 0, 0, 0, 0>>,  \* <fb><80><00><00><00><00><00><00><00>
    <<251, 127, 240, 0, 0, 0, 0, 0, 0>>,  \* <fb><7f><f0><00><00><00><00><00><00>
    <<251, 255, 240, 0, 0, 0, 0, 0, 0>>,  \* <fb><ff><f0><00><00><00><00><00><00>
    <<251, 127, 248, 0, 0, 0, 0, 0, 0>>,  \* <fb><7f><f8><00><00><00><00><00><00>
    <<251, 0, 0, 0, 0, 0, 0, 0, 1>>,  \* <fb><00><00><00><00><00><00><00><01>
    <<251, 255, 255, 255, 255, 255, 255, 255, 255>>,  \* <fb><ff><ff><ff><ff><ff><ff><ff><ff>
    <<251, 127, 239, 255, 255, 255, 255, 255, 255>>,  \* <fb><7f><ef><ff><ff><ff><ff><ff><ff>
    <<251, 63, 240>>,  \* <fb>?<f0>
    <<251>>  \* <fb>
}

\* cbor: text strings, well-formed or not
CborStrings == {
    <<97, 97>>,  \* aa
    <<98, 195, 169>>,  \* b<c3><a9>
    <<98, 195, 40>>,  \* b<c3><28>
    <<99, 237, 160, 128>>,  \* c<ed><a0><80>
    <<98, 192, 128>>,  \* b<c0><80>
    <<100, 240, 159, 152, 128>>,  \* d<f0><9f><98><80>
    <<100, 244, 144, 128, 128>>,  \* d<f4><90><80><80>
    <<97, 128>>,  \* a<80>
    <<98, 226, 130>>,  \* b<e2><82>
    <<98, 97>>,  \* ba
    <<119, 97>>,  \* wa
    <<120, 1, 97>>,  \* x<01>a
    <<120, 2, 97>>,  \* x<02>a
    <<120>>,  \* x
    <<121, 0, 1, 97>>,  \* y<00><01>a
    <<121, 0>>,  \* y<00>
    <<122, 0, 0, 0, 1, 97>>,  \* z<00><00><00><01>a
    <<123, 0, 0, 0, 0, 0, 0, 0, 1, 97>>,  \* {<00><00><00><00><00><00><00><01>a
    <<123, 255, 255, 255, 255, 255, 255, 255, 255>>,  \* {<ff><ff><ff><ff><ff><ff><ff><ff>
    <<122, 255, 255, 255, 255, 97>>,  \* z<ff><ff><ff><ff>a
    <<97, 97, 97>>,  \* aaa
    <<97, 0>>,  \* a<00>
    <<97, 127>>  \* a<7f>
}

\* cbor: arrays and maps, well-formed or not, none with a repeated key, and items of
\* forbidden types
CborCollections == {
    <<130, 246, 245>>,  \* <82><f6><f5>
    <<131, 246, 246, 246>>,  \* <83><f6><f6><f6>
    <<162, 97, 97, 246, 97, 98, 245>>,  \* <a2>aa<f6>ab<f5>
    <<161, 246, 246>>,  \* <a1><f6><f6>
    <<161, 97, 97>>,  \* <a1>aa
    <<130, 246>>,  \* <82><f6>
    <<152, 2, 246>>,  \* <98><02><f6>
    <<152, 1, 246>>,  \* <98><01><f6>
    <<153, 0, 2, 246, 246>>,  \* <99><00><02><f6><f6>
    <<184, 1>>,  \* <b8><01>
    <<184, 1, 97, 97, 246>>,  \* <b8><01>aa<f6>
    <<246, 246>>,  \* <f6><f6>
    <<128, 128>>,  \* <80><80>
    <<161, 96, 161, 96, 160>>,  \* <a1>`<a1>`<a0>
    <<129, 129, 128>>,  \* <81><81><80>
    <<162, 97, 97, 246, 97, 65, 245>>,  \* <a2>aa<f6>aA<f5>
    <<25, 3, 232>>,  \* <19><03><e8>
    <<24, 24>>,  \* <18><18>
    <<56, 99>>,  \* 8c
    <<249, 0, 0>>,  \* <f9><00><00>
    <<250, 0, 0, 0, 0>>,  \* <fa><00><00><00><00>
    <<192, 96>>,  \* <c0>`
    <<95, 255>>,  \* _<ff>
    <<127, 255>>,  \* <7f><ff>
    <<159, 255>>,  \* <9f><ff>
    <<191, 255>>  \* <bf><ff>
}

\* cbor: a map, well-formed but for one key held twice
CborRepeatedKey == {
    <<162, 97, 97, 246, 97, 97, 245>>,  \* <a2>aa<f6>aa<f5>
    <<162, 96, 246, 96, 245>>,  \* <a2>`<f6>`<f5>
    <<162, 98, 195, 169, 246, 98, 195, 169, 245>>,  \* <a2>b<c3><a9><f6>b<c3><a9><f5>
    <<162, 120, 1, 97, 246, 120, 1, 97, 245>>,  \* <a2>x<01>a<f6>x<01>a<f5>
    <<162, 100, 240, 159, 152, 128, 246, 100, 240, 159, 152, 128, 245>>,  \* <a2>d<f0><9f><98><80><f6>d<f0><9f><98><80><f5>
    <<162, 97, 97, 246, 120, 1, 97, 245>>,  \* <a2>aa<f6>x<01>a<f5>
    <<164, 97, 98, 246, 97, 97, 246, 97, 99, 128, 97, 97, 245>>,  \* <a4>ab<f6>aa<f6>ac<80>aa<f5>
    <<184, 2, 97, 97, 160, 97, 97, 128>>  \* <b8><02>aa<a0>aa<80>
}

\* json: what stands before and behind a value inside an array or an object
JsonWraps == {
    <<<<91>>, <<93>>>>,                                           \* [ ]
    <<<<91, 110, 117, 108, 108, 44, 32>>, <<32, 93>>>>,           \* [null, _ ]
    <<<<123, 34, 97, 34, 58>>, <<125>>>>,                         \* {"a": }
    <<<<123, 34, 98, 34, 58, 110, 117, 108, 108, 44, 34, 97, 34, 58>>, <<125>>>>  \* {"b":null,"a": }
}

\* cbor: what stands before a value inside an array or a map
CborWraps == {
    <<129>>,                           \* an array of one
    <<130, 246>>,                      \* an array of two, behind null
    <<161, 97, 97>>,                   \* a map of one, behind the key "a"
    <<162, 97, 98, 246, 97, 97>>       \* a map of two, behind "b": null and the key "a"
}

RECURSIVE JsonNested(_, _)
JsonNested(S, d) ==
    IF d = 0 THEN S
    ELSE S \cup {w[1] \o x \o w[2] : w \in JsonWraps, x \in JsonNested(S, d - 1)}

RECURSIVE CborNested(_, _)
CborNested(S, d) ==
    IF d = 0 THEN S
    ELSE S \cup {w \o x : w \in CborWraps, x \in CborNested(S, d - 1)}

\* json texts: string literals with escapes of surrogates, paired or not
JsonSurrogates == {
    <<34, 92, 117, 100, 56, 51, 100>>,  \* "\ud83d
    <<34, 92, 117, 100, 56, 51, 100, 92>>,  \* "\ud83d\
    <<34, 92, 117, 100, 56, 51, 100, 92, 117>>,  \* "\ud83d\u
    <<34, 92, 117, 100, 56, 51, 100, 92, 117, 100, 101>>,  \* "\ud83d\ude
    <<34, 92, 117, 100, 56, 51, 100, 92, 117, 100, 101, 48, 34>>,  \* "\ud83d\ude0"
    <<34, 97, 92, 117, 100, 56, 51, 100, 92, 110, 34>>,  \* "a\ud83d\n"
    <<34, 92, 117, 100, 56, 51, 100, 92, 92, 117, 100, 101, 48, 48, 34>>,  \* "\ud83d\\ude00"
    <<34, 92, 92, 117, 100, 56, 51, 100, 34>>,  \* "\\ud83d"
    <<34, 92, 117, 100, 56, 51, 100, 92, 117, 100, 101, 48, 48, 92, 117, 100, 99, 48, 48, 34>>,  \* "\ud83d\ude00\udc00"
    <<34, 92, 117, 68, 66, 70, 70, 92, 117, 68, 70, 70, 70, 34>>,  \* "\uDBFF\uDFFF"
    <<34, 92, 117, 100, 98, 102, 102, 92, 117, 100, 102, 102, 102, 34>>,  \* "\udbff\udfff"
    <<34, 92, 117, 68, 67, 48, 48, 92, 117, 68, 56, 48, 48, 34>>,  \* "\uDC00\uD800"
    <<34, 92, 117, 100, 56, 51, 100, 92, 117, 43, 101, 48, 48, 34>>,  \* "\ud83d\u+e00"
    <<34, 92, 117, 68, 56, 48, 48, 34>>,  \* "\uD800"
    <<34, 92, 117, 68, 70, 70, 70, 34>>,  \* "\uDFFF"
    <<34, 92, 117, 100, 55, 102, 102, 34>>,  \* "\ud7ff"
    <<34, 92, 117, 101, 48, 48, 48, 34>>,  \* "\ue000"
    <<34, 92, 117, 100, 56, 51, 100, 92, 117, 101, 48, 48, 48, 34>>,  \* "\ud83d\ue000"
    <<34, 92, 117, 100, 56, 51, 100, 92, 117, 100, 55, 102, 102, 34>>,  \* "\ud83d\ud7ff"
    <<34, 92, 117, 100, 56, 51, 100, 117, 100, 101, 48, 48, 34>>,  \* "\ud83dude00"
    <<34, 92, 117, 100, 56, 51, 100, 32, 92, 117, 100, 101, 48, 48, 34>>,  \* "\ud83d \ude00"
    <<34, 120, 92, 117, 100, 99, 48, 48, 121, 34>>,  \* "x\udc00y"
    <<34, 92, 100, 99, 48, 48, 34>>,  \* "\dc00"
    <<123, 34, 92, 117, 100, 56, 51, 100, 34, 58, 110, 117, 108, 108, 125>>,  \* {"\ud83d":null}
    <<123, 34, 92, 117, 100, 99, 48, 48, 34, 58, 110, 117, 108, 108, 125>>,  \* {"\udc00":null}
    <<123, 34, 92, 117, 100, 56, 51, 100, 92, 117, 100, 99, 48, 48, 34, 58, 110, 117, 108, 108, 125>>  \* {"\ud83d\udc00":null}
}

\* the hex digits, in lower case and in upper case
HexDigits == <<<<48, 49, 50, 51, 52, 53, 54, 55, 56, 57, 97, 98, 99, 100, 101, 102>>,
               <<48, 49, 50, 51, 52, 53, 54, 55, 56, 57, 65, 66, 67, 68, 69, 70>>>>

\* json texts: string literals with a control code point, raw ("_", "a_b") or as the
\* escape \u00XX ("\u00XX", "a\u00XXb")
JsonControls ==
    {<<34, c, 34>> : c \in 0..31}
        \cup {<<34, 97, c, 98, 34>> : c \in 0..31}
        \cup {<<34, 92, 117, 48, 48, HexDigits[k][(c \div 16) + 1], HexDigits[k][(c % 16) + 1], 34>> :
                  c \in 0..31, k \in 1..2}
        \cup {<<34, 97, 92, 117, 48, 48, HexDigits[k][(c \div 16) + 1], HexDigits[k][(c % 16) + 1], 98, 34>> :
                  c \in 0..31, k \in 1..2}

\* json texts of one value each, with the value
JsonTopValues == {
    [text |-> <<110, 117, 108, 108>>, val |-> Null],                               \* null
    [text |-> <<32, 10, 116, 114, 117, 101>>, val |-> Bool(TRUE)],                 \* true, behind whitespace
    [text |-> <<34, 97, 34>>, val |-> String(<<97>>)],                             \* "a"
    [text |-> <<91, 110, 117, 108, 108, 93>>, val |-> Array(<<Null>>)],            \* [null]
    [text |-> <<123, 34, 97, 34, 58, 102, 97, 108, 115, 101, 125>>,
     val |-> Object(HashMapOf(<<<<<<97>>, Bool(FALSE)>>>>))],                      \* {"a":false}
    [text |-> <<49, 48, 48>>, val |-> Float(<<64, 89, 0, 0, 0, 0, 0, 0>>)]         \* 100
}

\* what stands behind the value: nothing, any one byte, a space and any one byte,
\* whitespace of every kind, and more text behind whitespace
JsonTails ==
    {<<>>, <<9, 10, 13, 32>>, <<32, 32, 10>>, <<13, 10, 110, 117, 108, 108>>, <<9, 44, 32>>}
        \cup {<<b>> : b \in 0..255}
        \cup {<<32, b>> : b \in 0..255}
        \cup {<<b, 32>> : b \in 0..255}

\* a number goes on with a digit, a point or an exponent: behind 100 these are left out
JsonTrailing ==
    {v.text \o t : v \in {w \in JsonTopValues : w.val.t # "Float"}, t \in JsonTails}
        \cup {<<49, 48, 48>> \o t : t \in {u \in JsonTails : u = <<>> \/ u[1] \notin (48..57) \cup {46, 69, 101}}}

JsonInputs ==
    JsonNested(JsonLiterals \cup JsonStrings \cup JsonCollections \cup JsonRepeatedKey
                   \cup JsonSurrogates \cup JsonControls, MaxNest)
        \cup JsonTrailing

\* cbor items of one value each, with the value
CborTopValues == {
    [item |-> <<246>>, val |-> Null],
    [item |-> <<245>>, val |-> Bool(TRUE)],
    [item |-> <<97, 97>>, val |-> String(<<97>>)],                                  \* "a"
    [item |-> <<120, 1, 97>>, val |-> String(<<97>>)],                              \* "a", its length in a byte
    [item |-> <<129, 246>>, val |-> Array(<<Null>>)],                               \* [null]
    [item |-> <<161, 97, 97, 244>>, val |-> Object(HashMapOf(<<<<<<97>>, Bool(FALSE)>>>>))], \* {"a": false}
    [item |-> <<251, 63, 241, 153, 153, 153, 153, 153, 154>>,
     val |-> Float(<<63, 241, 153, 153, 153, 153, 153, 154>>)]                      \* 1.1
}

\* what stands behind the value: nothing, any one byte, any one byte and a zero byte,
\* a second value
CborTails ==
    {<<>>, <<246>>, <<129, 246>>, <<32, 32>>}
        \cup {<<b>> : b \in 0..255}
        \cup {<<b, 0>> : b \in 0..255}

CborTrailing == {v.item \o t : v \in CborTopValues, t \in CborTails}

CborInputs ==
    CborNested({<<b>> : b \in 0..255} \cup CborFloats \cup CborStrings
                   \cup CborCollections \cup CborRepeatedKey, MaxNest)
        \cup CborTrailing

InitDecode ==
    /\ map = EmptyMap /\ map2 = EmptyMap
    /\ firstSeen = <<>>
    /\ bound = [k \in {} |-> Null]
    /\ ret = None
    /\ ninserts = 0
    /\ pc = "decode"
    /\ value = Null
    /\ \/ cfg = [codec |-> "json"] /\ bytes \in JsonInputs
       \/ /\ \E le \in BOOLEAN : cfg = [codec |-> "cbor", littleEndian |-> le]
          /\ bytes \in CborInputs
    /\ bytes2 = <<>>
    /\ result = None

\* result = json::from_slice::<Value>(&bytes)
JsonFromSlice ==
    /\ pc = "decode" /\ cfg.codec = "json"
    /\ result' = json_from_slice(bytes)
    /\ pc' = "done"
    /\ UNCHANGED <<map, map2, firstSeen, bound, ret, ninserts, value, bytes, bytes2, cfg>>

\* result = cbor::from_slice::<Value>(&bytes)
CborFromSlice ==
    /\ pc = "decode" /\ cfg.codec = "cbor"
    /\ result' = cbor_from_slice(bytes)
    /\ pc' = "done"
    /\ UNCHANGED <<map, map2, firstSeen, bound, ret, ninserts, value, bytes, bytes2, cfg>>

NextDecode == JsonFromSlice \/ CborFromSlice

SpecDecode == InitDecode /\ [][NextDecode]_vars

---------------------------------------------------------------------------
(* The invariants of the data model, stated on a value without the help of  *)
(* the decoders' own validators.                                            *)

\* the 11 bits behind the sign
exponent_field(f) == (f[1] % 128) * 16 + (f[2] \div 16)

\* neither NaN nor an infinity (their exponent field is all ones) nor negative zero
is_model_float(f) == exponent_field(f) # 2047 /\ f # NegZeroBits

\* the bytes are the utf8 encodings of Unicode scalar values, one behind the other: each
\* is read by the bit pattern of its first byte, and the code point it yields must need
\* that many bytes, lie below 0x110000 and be no surrogate
RECURSIVE is_scalar_string(_)
is_scalar_string(s) ==
    IF s = <<>> THEN TRUE
    ELSE LET b == Head(s)
             n == IF b < 128 THEN 1
                  ELSE IF b \div 32 = 6 THEN 2
                  ELSE IF b \div 16 = 14 THEN 3
                  ELSE IF b \div 8 = 30 THEN 4
                  ELSE 0
             low(i) == s[i] % 64
             cp == IF n = 1 THEN b
                   ELSE IF n = 2 THEN (b % 32) * 64 + low(2)
                   ELSE IF n = 3 THEN (b % 16) * 4096 + low(2) * 64 + low(3)
                   ELSE (b % 8) * 262144 + low(2) * 4096 + low(3) * 64 + low(4)
             least == IF n = 1 THEN 0 ELSE IF n = 2 THEN 128 ELSE IF n = 3 THEN 2048 ELSE 65536
         IN  /\ n > 0
             /\ Len(s) >= n
             /\ \A i \in 2..n : s[i] \div 64 = 2
             /\ cp >= least
             /\ cp <= 1114111
             /\ ~(cp >= 55296 /\ cp <= 57343)
             /\ is_scalar_string(Drop(s, n))

RECURSIVE is_model_value(_)
is_model_value(v) ==
    IF v.t = "Float" THEN is_model_float(v.f)
    ELSE IF v.t = "String" THEN is_scalar_string(v.s)
    ELSE IF v.t = "Array" THEN \A i \in DOMAIN v.v : is_model_value(v.v[i])
    ELSE IF v.t = "Object"
    THEN \A k \in DOMAIN v.m : is_scalar_string(k) /\ is_model_value(v.m[k])
    ELSE v.t \in {"Null", "Bool"}

\* C6: every value that json::from_slice or cbor::from_slice returns as Ok holds the
\* invariants of the data model at every level of nesting: no float is NaN, an infinity
\* or negative zero, every string and every key is utf8 of Unicode scalar values (an
\* object is a HashMap, which holds no key twice)
C6_DecodedValueIsModelValue == (pc = "done" /\ result.ok) => is_model_value(result.val)

\* C6: {"a":1.1} was decoded to an object that holds a float under a key
C6_Witness ==
    /\ pc = "done"
    /\ cfg.codec = "json"
    /\ bytes = <<123, 34, 97, 34, 58, 49, 46, 49, 125>>
    /\ result.ok
    /\ result.val = Object(HashMapOf(<<<<<<97>>, Float(<<63, 241, 153, 153, 153, 153, 153, 154>>)>>>>))

\* the inputs that hold an object with one key twice
RepeatedKeyInputs ==
    [json |-> JsonNested(JsonRepeatedKey, MaxNest), cbor |-> CborNested(CborRepeatedKey, MaxNest)]

\* C7: both decoders reject an object, at any level of nesting, in which two entries have
\* equal keys, with DuplicateKey; for the text decoder two keys are equal when the
\* strings they are escapes of are equal
C7_RepeatedKeyIsDuplicateKey ==
    (pc = "done" /\ bytes \in RepeatedKeyInputs[cfg.codec]) => result = Err("DuplicateKey")

\* what may stand before a value: nothing, or the beginnings of arrays and maps
ValuePositions == CborNested({<<>>}, MaxNest)

\* the first bytes deserialize_any has a value for, as the claim lists them
is_listed_tag(byte) ==
    \/ byte >= 96 /\ byte <= 123
    \/ byte >= 128 /\ byte <= 155
    \/ byte >= 160 /\ byte <= 187
    \/ byte \in {244, 245, 246, 251}

\* C8: when the binary decoder is asked for any value and the next byte is none of
\* 0x60-0x7B, 0x80-0x9B, 0xA0-0xBB, 0xF4, 0xF5, 0xF6, 0xFB, it fails with ForbiddenType
C8_OtherTagsAreForbidden ==
    (pc = "done" /\ cfg.codec = "cbor") =>
        \A p \in ValuePositions :
            (IsPrefix(p, bytes) /\ Len(bytes) > Len(p) /\ ~is_listed_tag(bytes[Len(p) + 1]))
                => result = Err("ForbiddenType")

\* C8: an unsigned integer, 0x19 0x03 0xe8, stood inside an array and was refused
C8_Witness ==
    /\ pc = "done"
    /\ cfg.codec = "cbor"
    /\ bytes = <<129, 25, 3, 232>>
    /\ result = Err("ForbiddenType")

\* the bytes of the length field behind a tag: 0, 1, 2, 4 or 8
length_bytes(tag) ==
    IF tag % 32 <= 23 THEN 0
    ELSE IF tag % 32 = 24 THEN 1
    ELSE IF tag % 32 = 25 THEN 2
    ELSE IF tag % 32 = 26 THEN 4
    ELSE 8

\* item starts with the complete header of a string, an array or a map, and the length
\* the header declares, read most significant byte first, is above the number of bytes
\* behind the header
declares_more_than_remains(item) ==
    LET tag == Head(item)
        k == length_bytes(tag)
        remaining == Len(item) - 1 - k
        field == SubSeq(item, 2, 1 + k)
        low == IF k = 0 THEN tag % 32
               ELSE IF k = 1 THEN field[1]
               ELSE field[k - 1] * 256 + field[k]
    IN  /\ item # <<>>
        /\ tag \in LenTags
        /\ Len(item) >= 1 + k
        /\ \/ low > remaining
           \/ \E i \in 1..(k - 2) : field[i] # 0

\* C10: when the binary decoder reads the header of a string, an array or a map whose
\* declared length is larger than what the remaining input can hold, decoding fails with
\* InvalidLength
C10_OverlongIsInvalidLength ==
    (pc = "done" /\ cfg.codec = "cbor") =>
        \A p \in ValuePositions :
            (IsPrefix(p, bytes) /\ declares_more_than_remains(Drop(bytes, Len(p))))
                => result = Err("InvalidLength")

---------------------------------------------------------------------------
(* The three definitions of the float validity predicate, each applied to   *)
(* the same f64.                                                            *)

\* lib.rs: is_f64_valid
is_f64_valid(f) ==
    IF f64_is_zero(f)
    THEN f64_is_sign_positive(f)
    ELSE f64_is_finite(f) /\ ~f64_is_zero(f)

\* abstract_/mod.rs: LegacyF64::is_valid; f != -0.0 compares the numbers, and both zeros
\* are equal to -0.0
abstract_is_valid(f) == f64_is_finite(f) /\ ~f64_is_zero(f)

\* abstract_/mod.rs: LegacyF64::from_f64
abstract_from_f64(f) == IF abstract_is_valid(f) THEN Some(f) ELSE None

\* the f64s looked at, by their bits: both signs, the least, a middle and the greatest
\* exponents, mantissas that are zero or not
F64s ==
    {<<b1, b2, 0, 0, 0, 0, 0, b8>> :
        b1 \in {0, 63, 64, 127, 128, 191, 192, 255},
        b2 \in {0, 16, 239, 240, 248},
        b8 \in {0, 1, 255}}

InitFloat ==
    /\ map = EmptyMap /\ map2 = EmptyMap
    /\ firstSeen = <<>>
    /\ bound = [k \in {} |-> Null]
    /\ ret = None
    /\ ninserts = 0
    /\ pc = "validate"
    /\ value = Null
    /\ cfg = [codec |-> "f64"]
    /\ bytes \in F64s
    /\ bytes2 = <<>>
    /\ result = None

\* every definition of the predicate, and both from_f64, are asked about the f64
ValidateFloat ==
    /\ pc = "validate"
    /\ result' = [is_f64_valid |-> is_f64_valid(bytes),
                  is_valid |-> is_valid(bytes),
                  abstract_is_valid |-> abstract_is_valid(bytes),
                  from_f64 |-> from_f64(bytes),
                  abstract_from_f64 |-> abstract_from_f64(bytes)]
    /\ pc' = "done"
    /\ UNCHANGED <<map, map2, firstSeen, bound, ret, ninserts, value, bytes, bytes2, cfg>>

NextFloat == ValidateFloat

SpecFloat == InitFloat /\ [][NextFloat]_vars

\* C11: the float validity predicate accepts exactly the f64s that are finite and not
\* negative zero; is_f64_valid and both LegacyF64::is_valid give this same answer, and
\* from_f64(x) is Some, of x, exactly when the predicate holds
C11_ValidIffFiniteAndNotNegativeZero ==
    pc = "done" =>
        /\ result.is_f64_valid = is_model_float(bytes)
        /\ result.is_valid = is_model_float(bytes)
        /\ result.abstract_is_valid = is_model_float(bytes)
        /\ result.from_f64 = (IF is_model_float(bytes) THEN Some(bytes) ELSE None)
        /\ result.abstract_from_f64 = (IF is_model_float(bytes) THEN Some(bytes) ELSE None)

---------------------------------------------------------------------------
(* Number literals of the json grammar, read off the text.                  *)

is_digits(s) == s # <<>> /\ \A i \in DOMAIN s : s[i] >= 48 /\ s[i] <= 57

all_zeros(s) == \A i \in DOMAIN s : s[i] = 48

\* the digits are a number of at least 400
at_least_400(s) ==
    \E i \in DOMAIN s :
        /\ \A j \in 1..(i - 1) : s[j] = 48
        /\ s[i] # 48
        /\ Len(s) - i >= 2
        /\ (Len(s) - i = 2 => s[i] >= 52)

\* t is [-] int [. frac] [e|E [+|-] digits], int being 0 or digits that do not start
\* with 0, and what it denotes is, as an f64, negative zero (a negative sign before a
\* mantissa of zeros, or before a number below 1e-398) or an infinity (at least 1e400)
denotes_unsafe_number(t) ==
    LET s == IF t # <<>> /\ Head(t) = 45 THEN 1 ELSE 0
    IN  \E a \in (s + 1)..Len(t), b \in (s + 1)..Len(t) :
            LET int == SubSeq(t, s + 1, a)
                frac == SubSeq(t, a + 2, b)
                hasExp == b < Len(t)
                signed == b + 2 <= Len(t) /\ t[b + 2] \in {43, 45}
                exp == SubSeq(t, IF signed THEN b + 3 ELSE b + 2, Len(t))
                expNeg == signed /\ t[b + 2] = 45
            IN  /\ b >= a
                /\ is_digits(int) /\ (Len(int) = 1 \/ int[1] # 48)
                /\ b > a => (t[a + 1] = 46 /\ is_digits(frac))
                /\ hasExp => (t[b + 1] \in {69, 101} /\ is_digits(exp))
                /\ \/ s = 1 /\ all_zeros(int) /\ all_zeros(frac)
                   \/ s = 1 /\ Len(int) = 1 /\ hasExp /\ expNeg /\ at_least_400(exp)
                   \/ /\ ~all_zeros(int) /\ hasExp /\ ~expNeg /\ at_least_400(exp)

\* the inputs with such a literal where a value is looked for
UnsafeNumberInputs ==
    JsonNested({t \in JsonLiterals : denotes_unsafe_number(t)}, MaxNest)

\* C12: the text decoder fails with InvalidNumber on every number literal that matches
\* the number grammar but denotes negative zero or no finite f64 (-0, -0.0, -0e5, 1e999),
\* and returns no Float for it
C12_UnsafeNumberIsInvalidNumber ==
    (pc = "done" /\ cfg.codec = "json" /\ bytes \in UnsafeNumberInputs)
        => result = Err("InvalidNumber")

\* C12: {"a":-0e5} was refused
C12_Witness ==
    /\ pc = "done"
    /\ cfg.codec = "json"
    /\ bytes = <<123, 34, 97, 34, 58, 45, 48, 101, 53, 125>>
    /\ bytes \in UnsafeNumberInputs
    /\ result = Err("InvalidNumber")

---------------------------------------------------------------------------
(* Escapes of surrogates in a json string literal, read off the text.       *)

is_hex(byte) ==
    \/ byte >= 48 /\ byte <= 57
    \/ byte >= 65 /\ byte <= 70
    \/ byte >= 97 /\ byte <= 102

\* four hex digits stand at t[i..i+3]
hex4_at(t, i) == i + 3 <= Len(t) /\ \A j \in i..(i + 3) : is_hex(t[j])

hex_digit(byte) == IF byte <= 57 THEN byte - 48 ELSE IF byte <= 70 THEN byte - 55 ELSE byte - 87

hex4_value(t, i) ==
    hex_digit(t[i]) * 4096 + hex_digit(t[i + 1]) * 256 + hex_digit(t[i + 2]) * 16 + hex_digit(t[i + 3])

\* what json puts behind a backslash, `u` apart
SimpleEscapes == {34, 92, 47, 98, 102, 110, 114, 116}

\* The first thing about surrogates that is wrong with the string literal whose content
\* starts at t[i], all before it being printable ascii and well-formed escapes:
\*   "high": the escape of a high surrogate, and what follows it is no \u escape of a
\*           low surrogate,
\*   "high at end": the escape of a high surrogate, and the input ends behind it, or
\*           behind one backslash more,
\*   "low":  the escape of a low surrogate that no escape of a high surrogate precedes,
\*   "none": nothing, up to the closing quote; "other": something that is not looked at.
RECURSIVE surrogate_fault(_, _)
surrogate_fault(t, i) ==
    IF i > Len(t) THEN "other"
    ELSE IF t[i] = 34 THEN "none"
    ELSE IF t[i] = 92 THEN
        IF i + 1 > Len(t) THEN "other"
        ELSE IF t[i + 1] \in SimpleEscapes THEN surrogate_fault(t, i + 2)
        ELSE IF t[i + 1] # 117 \/ ~hex4_at(t, i + 2) THEN "other"
        ELSE LET u == hex4_value(t, i + 2)
             IN  IF u >= 55296 /\ u <= 56319 THEN
                     IF i + 6 > Len(t) \/ (i + 6 = Len(t) /\ t[i + 6] = 92) THEN "high at end"
                     ELSE IF /\ i + 7 <= Len(t) /\ t[i + 6] = 92 /\ t[i + 7] = 117
                             /\ hex4_at(t, i + 8)
                             /\ hex4_value(t, i + 8) >= 56320 /\ hex4_value(t, i + 8) <= 57343
                     THEN surrogate_fault(t, i + 12)
                     ELSE "high"
                 ELSE IF u >= 56320 /\ u <= 57343 THEN "low"
                 ELSE surrogate_fault(t, i + 6)
    ELSE IF t[i] < 32 \/ t[i] > 126 THEN "other"
    ELSE surrogate_fault(t, i + 1)

RECURSIVE JsonValuePositions(_)
\* what may stand before a value: nothing, or the beginnings of arrays and objects
JsonValuePositions(d) ==
    IF d = 0 THEN {<<>>}
    ELSE {<<>>} \cup {w[1] \o p : w \in JsonWraps, p \in JsonValuePositions(d - 1)}

\* what may stand before a string: all of these, and the same with an opening brace
JsonStringPositions ==
    JsonValuePositions(MaxNest) \cup {p \o <<123>> : p \in JsonValuePositions(MaxNest)}

\* the surrogate fault of the string literal that stands in the input where a value or a
\* key is looked for; "other" if none stands there
fault_of_input(t) ==
    IF \E p \in JsonStringPositions : IsPrefix(p \o <<34>>, t) /\ surrogate_fault(t, Len(p) + 2) # "other"
    THEN LET p == CHOOSE q \in JsonStringPositions :
                      IsPrefix(q \o <<34>>, t) /\ surrogate_fault(t, Len(q) + 2) # "other"
         IN  surrogate_fault(t, Len(p) + 2)
    ELSE "other"

\* utf8 has the surrogates as 0xED 0xA0..0xBF and one byte more
holds_surrogate(s) == \E i \in 1..(Len(s) - 1) : s[i] = 237 /\ s[i + 1] >= 160

RECURSIVE some_string_holds_surrogate(_)
some_string_holds_surrogate(v) ==
    IF v.t = "String" THEN holds_surrogate(v.s)
    ELSE IF v.t = "Array" THEN \E i \in DOMAIN v.v : some_string_holds_surrogate(v.v[i])
    ELSE IF v.t = "Object"
    THEN \E k \in DOMAIN v.m : holds_surrogate(k) \/ some_string_holds_surrogate(v.m[k])
    ELSE FALSE

\* C13, as the claim has it: in a text string the decoder fails with InvalidStringContent
\* for an escaped high surrogate that no \u escape of a low surrogate follows at once,
\* and for an escaped low surrogate that no high surrogate precedes; no decoded string
\* holds a surrogate
C13_LoneSurrogateIsInvalidStringContent ==
    (pc = "done" /\ cfg.codec = "json") =>
        /\ fault_of_input(bytes) \in {"high", "high at end", "low"}
               => result = Err("InvalidStringContent")
        /\ result.ok => ~some_string_holds_surrogate(result.val)

\* C13, amended: the same, but where the input ends behind the escape of the high
\* surrogate, or behind one backslash more, the failure is UnexpectedEndOfInput
C13_LoneSurrogateIsRefused ==
    (pc = "done" /\ cfg.codec = "json") =>
        /\ fault_of_input(bytes) \in {"high", "low"} => result = Err("InvalidStringContent")
        /\ fault_of_input(bytes) = "high at end" => result = Err("UnexpectedEndOfInput")
        /\ result.ok => ~some_string_holds_surrogate(result.val)

\* C13: [null, "\ud83da" ] was refused for its high surrogate
C13_Witness ==
    /\ pc = "done"
    /\ cfg.codec = "json"
    /\ bytes = <<91, 110, 117, 108, 108, 44, 32,
                 34, 92, 117, 100, 56, 51, 100, 92, 117, 48, 48, 54, 49, 34, 32, 93>>
    /\ fault_of_input(bytes) = "high"
    /\ result = Err("InvalidStringContent")

---------------------------------------------------------------------------
(* Control code points in a json string literal.                            *)

\* a string literal opens at t[i - 1], and t[i..] is printable ascii without quote and
\* backslash up to a byte 0x00..0x1F
raw_control_in_string(t, i) ==
    \E c \in i..Len(t) :
        /\ t[c] <= 31
        /\ \A j \in i..(c - 1) : t[j] >= 32 /\ t[j] <= 126 /\ t[j] \notin {34, 92}

\* the text "\u00XX" for the code point c, in the digits of HexDigits[k]
escaped_control(c, k) ==
    <<34, 92, 117, 48, 48, HexDigits[k][(c \div 16) + 1], HexDigits[k][(c % 16) + 1], 34>>

\* C14: the text decoder fails with InvalidStringContent whenever a raw byte 0x00..0x1F
\* occurs inside a string literal, and accepts the same code point written as \u00XX,
\* decoding it to that single scalar value
C14_ControlsMustBeEscaped ==
    (pc = "done" /\ cfg.codec = "json") =>
        /\ \A p \in JsonStringPositions :
               (IsPrefix(p \o <<34>>, bytes) /\ raw_control_in_string(bytes, Len(p) + 2))
                   => result = Err("InvalidStringContent")
        /\ \A c \in 0..31, k \in 1..2 :
               /\ bytes = escaped_control(c, k) => result = Ok(String(<<c>>), <<>>)
               /\ bytes = <<91>> \o escaped_control(c, k) \o <<93>>
                      => result = Ok(Array(<<String(<<c>>)>>), <<>>)

\* C14: "\u001F" was decoded to the one scalar U+001F, and so it was inside an array
C14_Witness ==
    /\ pc = "done"
    /\ cfg.codec = "json"
    /\ bytes = <<91>> \o escaped_control(31, 2) \o <<93>>
    /\ result = Ok(Array(<<String(<<31>>)>>), <<>>)

---------------------------------------------------------------------------
(* serialize_str on its own: a string is written by the json serializer.    *)

\* the strings written: one ascii byte, alone and between letters, every two-byte
\* character, some characters of three and of four bytes, the empty string, and all of
\* the bytes with a case of their own side by side
Utf8Texts ==
    {<<>>, <<226, 130, 172>>, <<239, 191, 191>>, <<240, 159, 152, 128>>, <<244, 143, 191, 191>>,
     <<34, 92, 8, 9, 10, 12, 13, 11, 0, 31, 32, 127, 47, 195, 169>>}
        \cup {<<c>> : c \in 0..127}
        \cup {<<97, c, 98>> : c \in 0..127}
        \cup {<<a, b>> : a \in 194..223, b \in 128..191}

InitStr ==
    /\ map = EmptyMap /\ map2 = EmptyMap
    /\ firstSeen = <<>>
    /\ bound = [k \in {} |-> Null]
    /\ ret = None
    /\ ninserts = 0
    /\ pc = "serialize"
    /\ value \in {String(s) : s \in Utf8Texts}
    /\ \E compact \in BOOLEAN : cfg = [codec |-> "json", compact |-> compact]
    /\ bytes = <<>>
    /\ bytes2 = <<>>
    /\ result = None

\* bytes = what JsonSerializer::serialize_str writes for the string
SerializeStr ==
    /\ pc = "serialize"
    /\ bytes' = serialize_str(JsonSerializer(<<>>, cfg.compact), value.s).writer
    /\ pc' = "done"
    /\ UNCHANGED <<map, map2, firstSeen, bound, ret, ninserts, value, bytes2, result, cfg>>

NextStr == SerializeStr

SpecStr == InitStr /\ [][NextStr]_vars

\* what the claim has for one byte of the content
written_for(byte) ==
    CASE byte = 34 -> <<92, 34>>
      [] byte = 92 -> <<92, 92>>
      [] byte = 8 -> <<92, 98>>
      [] byte = 9 -> <<92, 116>>
      [] byte = 10 -> <<92, 110>>
      [] byte = 12 -> <<92, 102>>
      [] byte = 13 -> <<92, 114>>
      [] byte < 32 /\ byte \notin {8, 9, 10, 12, 13} ->
             <<92, 117, 48, 48, HexDigits[1][(byte \div 16) + 1], HexDigits[1][(byte % 16) + 1]>>
      [] OTHER -> <<byte>>

\* where in the text what is written for the i-th byte of s starts, the text starting
\* with a quote
RECURSIVE start_of(_, _)
start_of(s, i) == IF i = 1 THEN 2 ELSE start_of(s, i - 1) + Len(written_for(s[i - 1]))

\* C15: the text encoder writes a string as a quote, then for each byte of the content
\* \" for 0x22, \\ for 0x5C, \b \t \n \f \r for 0x08 0x09 0x0A 0x0C 0x0D, \u00XX with
\* lower-case hex digits for every other byte below 0x20 and the byte itself for every
\* other byte, 0x7F and all from 0x80 on included, then a quote
C15_StringEscapes ==
    pc = "done" =>
        LET s == value.s
            last == start_of(s, Len(s) + 1)
        IN  /\ Len(bytes) = last
            /\ bytes[1] = 34
            /\ bytes[last] = 34
            /\ \A i \in DOMAIN s :
                   SubSeq(bytes, start_of(s, i), start_of(s, i + 1) - 1) = written_for(s[i])

\* C15: every kind of byte stood in one string, and was written as
\* "\"\\\b\t\n\f\r\u000b\u0000\u001f <7f>/<c3><a9>"
C15_Witness ==
    /\ pc = "done"
    /\ value.s = <<34, 92, 8, 9, 10, 12, 13, 11, 0, 31, 32, 127, 47, 195, 169>>
    /\ bytes = <<34, 92, 34, 92, 92, 92, 98, 92, 116, 92, 110, 92, 102, 92, 114,
                 92, 117, 48, 48, 48, 98, 92, 117, 48, 48, 48, 48, 92, 117, 48, 48, 49, 102,
                 32, 127, 47, 195, 169, 34>>

---------------------------------------------------------------------------
(* What may stand behind the top-level value.                               *)

\* C16: the text from_slice returns Ok only if every byte behind the top-level value is
\* one of 0x09, 0x0A, 0x0D, 0x20; if the value parses and any other byte follows, the
\* result is TrailingCharacters and no value is returned
C16_OnlyWhitespaceMayFollow ==
    (pc = "done" /\ cfg.codec = "json") =>
        \A v \in JsonTopValues, t \in JsonTails :
            (bytes = v.text \o t /\ bytes \in JsonTrailing) =>
                IF \A i \in DOMAIN t : t[i] \in {9, 10, 13, 32}
                THEN result = Ok(v.val, <<>>)
                ELSE result = Err("TrailingCharacters")

\* C16: [null] with a space and a zero byte behind it was refused
C16_Witness ==
    /\ pc = "done"
    /\ cfg.codec = "json"
    /\ bytes = <<91, 110, 117, 108, 108, 93, 32, 0>>
    /\ result = Err("TrailingCharacters")

\* C17: the binary from_slice returns Ok only if the input is fully consumed by the single
\* top-level value; if the value parses and at least one byte remains, the result is
\* TrailingBytes and no value is returned
C17_NothingMayFollow ==
    (pc = "done" /\ cfg.codec = "cbor") =>
        \A v \in CborTopValues, t \in CborTails :
            bytes = v.item \o t =>
                IF t = <<>> THEN result = Ok(v.val, <<>>) ELSE result = Err("TrailingBytes")

\* C17: {"a": false} with a zero byte behind it was refused
C17_Witness ==
    /\ pc = "done"
    /\ cfg.codec = "cbor"
    /\ bytes = <<161, 97, 97, 244, 0>>
    /\ result = Err("TrailingBytes")

---------------------------------------------------------------------------
(* write_len on every usize of a 64 bit target.  A length is its 8 bytes,   *)
(* most significant first.                                                  *)

\* the first n of the 8 bytes are zero: the length is below 2^(8 * (8 - n))
below(length, n) == \A i \in 1..n : length[i] = 0

\* a mutant of write_len_u64: 24 is written into the tag byte as well
write_len_u64_inline_24(writer, length, major) ==
    IF below(length, 7) /\ length[8] <= 24 THEN writer \o <<major + length[8]>>
    ELSE IF below(length, 7) THEN writer \o <<major + 24, length[8]>>
    ELSE IF below(length, 6) THEN writer \o <<major + 25>> \o SubSeq(length, 7, 8)
    ELSE IF below(length, 4) THEN writer \o <<major + 26>> \o SubSeq(length, 5, 8)
    ELSE writer \o <<major + 27>> \o length

\* CborSerializer::write_len: the arms 0...23, 24...255, 256...65535, 65536...4294967295
\* and _; `len as u16` and `len as u32` keep the low bytes, and transmute(to_be(_)) puts
\* the most significant of them first on every target
write_len_u64(writer, length, major) ==
    IF below(length, 7) /\ length[8] <= 23 THEN writer \o <<major + length[8]>>
    ELSE IF below(length, 7) THEN writer \o <<major + 24, length[8]>>
    ELSE IF below(length, 6) THEN writer \o <<major + 25>> \o SubSeq(length, 7, 8)
    ELSE IF below(length, 4) THEN writer \o <<major + 26>> \o SubSeq(length, 5, 8)
    ELSE writer \o <<major + 27>> \o length

\* the lengths written: every one whose bytes are 0, 1 or 255, and those around 23 and 24
Lengths ==
    [1..8 -> {0, 1, 255}] \cup {<<0, 0, 0, 0, 0, 0, b7, b8>> : b7 \in {0, 1}, b8 \in 0..255}

InitWriteLen ==
    /\ map = EmptyMap /\ map2 = EmptyMap
    /\ firstSeen = <<>>
    /\ bound = [k \in {} |-> Null]
    /\ ret = None
    /\ ninserts = 0
    /\ pc = "write"
    /\ value = Null
    /\ \E major \in {Utf8String, ArrayMajor, MapMajor} : cfg = [codec |-> "cbor", major |-> major]
    /\ bytes \in Lengths
    /\ bytes2 = <<>>
    /\ result = None

\* bytes2 = what write_len writes for the length
WriteLen ==
    /\ pc = "write"
    /\ bytes2' = write_len_u64(<<>>, bytes, cfg.major)
    /\ pc' = "done"
    /\ UNCHANGED <<map, map2, firstSeen, bound, ret, ninserts, value, bytes, result, cfg>>

NextWriteLen == WriteLen

SpecWriteLen == InitWriteLen /\ [][NextWriteLen]_vars

\* the number of zero bytes the length starts with
leading_zero_bytes(length) ==
    IF \A i \in 1..8 : length[i] = 0 THEN 8
    ELSE (CHOOSE i \in 1..8 : length[i] # 0 /\ \A j \in 1..(i - 1) : length[j] = 0) - 1

\* C18: for every length n the binary encoder writes the length field in the smallest
\* width that can hold n: in the tag byte for n <= 23, tag 24 and 1 byte for n <= 255,
\* tag 25 and 2 bytes for n <= 65535, tag 26 and 4 bytes for n <= 2^32-1, tag 27 and
\* 8 bytes otherwise, the bytes in big-endian order
C18_SmallestLengthField ==
    pc = "done" =>
        LET z == leading_zero_bytes(bytes)
            width == IF z >= 7 THEN (IF bytes[8] <= 23 THEN 0 ELSE 1)
                     ELSE IF z = 6 THEN 2
                     ELSE IF z >= 4 THEN 4
                     ELSE 8
            info == IF width = 0 THEN bytes[8]
                    ELSE IF width = 1 THEN 24
                    ELSE IF width = 2 THEN 25
                    ELSE IF width = 4 THEN 26
                    ELSE 27
        IN  /\ Len(bytes2) = 1 + width
            /\ bytes2[1] = cfg.major + info
            /\ \A i \in 1..width : bytes2[1 + i] = bytes[8 - width + i]
            /\ (z >= 5 /\ bytes[4] < 128) =>
                   bytes2 = write_len(<<>>, bytes[6] * 65536 + bytes[7] * 256 + bytes[8], cfg.major)

\* C18: the length 2^32 of an array was written as 0x9b and eight bytes
C18_Witness ==
    /\ pc = "done"
    /\ bytes = <<0, 0, 0, 1, 0, 0, 0, 0>>
    /\ bytes2 = <<155, 0, 0, 0, 1, 0, 0, 0, 0>>

---------------------------------------------------------------------------
(* lib.rs: the encoding a message is hashed in, and its length.             *)

\* how many chars a message has at most
MaxChars == 2

\* str::chars: the code points of a utf8 string
RECURSIVE chars(_)
chars(s) ==
    IF s = <<>> THEN <<>>
    ELSE LET n == utf8_from_slice_start(s)
             c == IF n = 1 THEN s[1]
                  ELSE IF n = 2 THEN (s[1] - 192) * 64 + (s[2] - 128)
                  ELSE IF n = 3 THEN (s[1] - 224) * 4096 + (s[2] - 128) * 64 + (s[3] - 128)
                  ELSE (s[1] - 240) * 262144 + (s[2] - 128) * 4096 + (s[3] - 128) * 64
                           + (s[4] - 128)
         IN  <<c>> \o chars(Drop(s, n))

\* char::encode_utf16
char_encode_utf16(c) ==
    IF c < 65536 THEN <<c>>
    ELSE <<55296 + ((c - 65536) \div 1024), 56320 + ((c - 65536) % 1024)>>

\* str::encode_utf16
encode_utf16(s) == Concat([i \in DOMAIN chars(s) |-> char_encode_utf16(chars(s)[i])])

\* a mutant of shiftr8: the high byte, as the name has it
shiftr8_high_byte(x) == x \div 256

\* shiftr8: x as u8
shiftr8(x) == x % 256

\* to_weird_encoding, all that the iterator yields
to_weird_encoding(s) == [i \in DOMAIN encode_utf16(s) |-> shiftr8(encode_utf16(s)[i])]

\* legacy_length: to_weird_encoding(msg).count()
legacy_length(msg) == Len(to_weird_encoding(msg))

\* the chars of the messages: the least and the greatest of every length in utf8 and in
\* utf16, and some between
Chars == {0, 97, 127, 128, 233, 255, 256, 2047, 2048, 8364, 55295, 57344, 65535,
          65536, 128512, 1114111}

\* the messages, as their code points
Messages == UNION {[1..n -> Chars] : n \in 0..MaxChars}

InitWeird ==
    /\ map = EmptyMap /\ map2 = EmptyMap
    /\ firstSeen = <<>>
    /\ bound = [k \in {} |-> Null]
    /\ ret = None
    /\ ninserts = 0
    /\ pc = "hash"
    /\ \E m \in Messages :
           /\ bytes2 = m
           /\ value = String(Concat([i \in DOMAIN m |-> encode_utf8(m[i])]))
    /\ cfg = [codec |-> "weird"]
    /\ bytes = <<>>
    /\ result = None

\* bytes = to_weird_encoding(msg).collect(), result = legacy_length(msg)
WeirdEncode ==
    /\ pc = "hash"
    /\ bytes' = to_weird_encoding(value.s)
    /\ result' = legacy_length(value.s)
    /\ pc' = "done"
    /\ UNCHANGED <<map, map2, firstSeen, bound, ret, ninserts, value, bytes2, cfg>>

NextWeird == WeirdEncode

SpecWeird == InitWeird /\ [][NextWeird]_vars

\* the number of utf16 code units of the first n code points of m
units_before(m, n) == n + Cardinality({i \in 1..n : m[i] > 65535})

\* C19: to_weird_encoding(s) yields, in order, the low 8 bits of each utf16 code unit of
\* s, two bytes for a code point above U+FFFF, and legacy_length(s) is the number of
\* bytes yielded, which is the number of utf16 code units of s
C19_WeirdEncoding ==
    pc = "done" =>
        /\ Len(bytes) = units_before(bytes2, Len(bytes2))
        /\ result = Len(bytes)
        /\ \A i \in DOMAIN bytes2 :
               LET c == bytes2[i]
                   at == units_before(bytes2, i - 1) + 1
               IN  IF c <= 65535 THEN bytes[at] = c % 256
                   ELSE /\ bytes[at] = ((c - 65536) \div 1024) % 256
                        /\ bytes[at + 1] = c % 256

\* C19: U+1F600 and the euro sign were yielded as 0x3d 0x00 0xac, and their length is 3
C19_Witness ==
    /\ pc = "done"
    /\ bytes2 = <<128512, 8364>>
    /\ value.s = <<240, 159, 152, 128, 226, 130, 172>>
    /\ bytes = <<61, 0, 172>>
    /\ result = 3

---------------------------------------------------------------------------
(* lib.rs and cbor/ser.rs: integers as floats.  A u64 or i64 is its 8 bytes, *)
(* most significant first, an i64 in two's complement.                       *)

\* the 64 bits of 8 bytes, most significant first
bits_of(n) == [i \in 1..64 |-> (n[((i - 1) \div 8) + 1] \div (2 ^ (7 - ((i - 1) % 8)))) % 2]

\* the 8 bytes of 64 bits
bytes_of(b) ==
    [k \in 1..8 |->
        LET o == 8 * (k - 1)
        IN  b[o + 1] * 128 + b[o + 2] * 64 + b[o + 3] * 32 + b[o + 4] * 16
                + b[o + 5] * 8 + b[o + 6] * 4 + b[o + 7] * 2 + b[o + 8]]

\* a > c, of two numbers in as many bits
bits_gt(a, c) == \E i \in DOMAIN a : a[i] > c[i] /\ \A j \in 1..(i - 1) : a[j] = c[j]

\* the number after b, of a b whose bits are not all 1
bits_inc(b) ==
    LET j == CHOOSE i \in DOMAIN b : b[i] = 0 /\ \A k \in (i + 1)..Len(b) : b[k] = 1
    IN  [i \in DOMAIN b |-> IF i < j THEN b[i] ELSE IF i = j THEN 1 ELSE 0]

\* 9007199254740992, that is 2^53
TwoPow53 == [i \in 1..64 |-> IF i = 11 THEN 1 ELSE 0]

\* std::i64::MAX
I64Max == [i \in 1..64 |-> IF i = 1 THEN 0 ELSE 1]

\* is_u64_valid: n > 9007199254740992
is_u64_valid(n) == bits_gt(bits_of(n), TwoPow53)

\* i64::checked_abs: None for i64::MIN, whose absolute value is no i64
checked_abs(b) ==
    IF b[1] = 0 THEN Some(b)
    ELSE IF \A i \in 2..64 : b[i] = 0 THEN None
    ELSE Some(bits_inc([i \in 1..64 |-> 1 - b[i]]))

\* is_i64_valid: n.checked_abs().unwrap_or(std::i64::MAX) > 9007199254740992
is_i64_valid(n) ==
    LET a == checked_abs(bits_of(n))
    IN  bits_gt(IF a.some THEN a.val ELSE I64Max, TwoPow53)

\* the f64 nearest to the number of the 64 bits m, ties to even, with the sign bit given:
\* what `as f64` is for an integer
bits_as_f64(m, sign) ==
    IF \A i \in 1..64 : m[i] = 0 THEN <<0, 0, 0, 0, 0, 0, 0, 0>>
    ELSE LET i0 == CHOOSE i \in 1..64 : m[i] = 1 /\ \A j \in 1..(i - 1) : m[j] = 0
             sig == [k \in 1..53 |-> IF i0 + k - 1 <= 64 THEN m[i0 + k - 1] ELSE 0]
             half == i0 + 53 <= 64 /\ m[i0 + 53] = 1
             sticky == \E i \in (i0 + 54)..64 : m[i] = 1
             up == half /\ (sticky \/ sig[53] = 1)
             carry == up /\ \A k \in 1..53 : sig[k] = 1
             rounded == IF ~up THEN sig
                        ELSE IF carry THEN [k \in 1..53 |-> IF k = 1 THEN 1 ELSE 0]
                        ELSE bits_inc(sig)
             e == 1023 + (64 - i0) + (IF carry THEN 1 ELSE 0)
         IN  bytes_of(<<sign>> \o [k \in 1..11 |-> (e \div (2 ^ (11 - k))) % 2]
                          \o SubSeq(rounded, 2, 53))

\* v as f64, of a u64
u64_as_f64(v) == bits_as_f64(bits_of(v), 0)

\* v as f64, of an i64
i64_as_f64(v) ==
    LET b == bits_of(v)
    IN  IF b[1] = 0 THEN bits_as_f64(b, 0)
        ELSE bits_as_f64(bits_inc([i \in 1..64 |-> 1 - b[i]]), 1)

\* CborSerializer::serialize_u64
cbor_serialize_u64(writer, v) ==
    IF is_u64_valid(v) THEN cbor_serialize_f64(writer, u64_as_f64(v))
    ELSE Err("InvalidUnsignedInteger")

\* CborSerializer::serialize_i64
cbor_serialize_i64(writer, v) ==
    IF is_i64_valid(v) THEN cbor_serialize_f64(writer, i64_as_f64(v))
    ELSE Err("InvalidSignedInteger")

\* the integers serialized: around 0, around 2^53 and its negative, and the extremes
Integers64 ==
    {<<b1, b2, m, m, m, m, b7, b8>> :
        b1 \in {0, 127, 128, 255}, b2 \in {0, 31, 32, 223, 224, 255},
        m \in {0, 255}, b7 \in {0, 255}, b8 \in {0, 1, 2, 3, 255}}

InitInt ==
    /\ map = EmptyMap /\ map2 = EmptyMap
    /\ firstSeen = <<>>
    /\ bound = [k \in {} |-> Null]
    /\ ret = None
    /\ ninserts = 0
    /\ pc = "serialize"
    /\ value = Null
    /\ \E type \in {"u64", "i64"} : cfg = [codec |-> "cbor", type |-> type]
    /\ bytes \in Integers64
    /\ bytes2 = <<>>
    /\ result = Null

\* is_u64_valid(v) and serializer.serialize_u64(v), on an empty writer
SerializeU64 ==
    /\ pc = "serialize" /\ cfg.type = "u64"
    /\ result' = [valid |-> is_u64_valid(bytes), out |-> cbor_serialize_u64(<<>>, bytes)]
    /\ pc' = "done"
    /\ UNCHANGED <<map, map2, firstSeen, bound, ret, ninserts, value, bytes, bytes2, cfg>>

\* is_i64_valid(v) and serializer.serialize_i64(v), on an empty writer
SerializeI64 ==
    /\ pc = "serialize" /\ cfg.type = "i64"
    /\ result' = [valid |-> is_i64_valid(bytes), out |-> cbor_serialize_i64(<<>>, bytes)]
    /\ pc' = "done"
    /\ UNCHANGED <<map, map2, firstSeen, bound, ret, ninserts, value, bytes, bytes2, cfg>>

NextInt == SerializeU64 \/ SerializeI64

SpecInt == InitInt /\ [][NextInt]_vars

\* n <= 2^53, of a u64
at_most_2_pow_53(n) ==
    n[1] = 0 /\ (n[2] < 32 \/ (n[2] = 32 /\ \A i \in 3..8 : n[i] = 0))

\* -2^53 <= n, of a negative i64: n is 0xFFE0000000000000 or above
at_least_minus_2_pow_53(n) == n[1] = 255 /\ n[2] >= 224

\* the integer is in the range the claim calls valid
in_safe_range ==
    IF cfg.type = "u64" \/ bytes[1] < 128 THEN at_most_2_pow_53(bytes)
    ELSE at_least_minus_2_pow_53(bytes)

(* C20: is_u64_valid(n) is true exactly when n is not larger than 2^53, and   *)
(* is_i64_valid(n) exactly when the absolute value of n is not larger than    *)
(* 2^53 (false for i64::MIN); serialize_u64 and serialize_i64 write such an   *)
(* integer as a float (0xFB and 8 bytes) and return InvalidUnsignedInteger /  *)
(* InvalidSignedInteger for any other integer.                                *)
C20_IntegersUpTo2Pow53AreValid ==
    (pc = "done" /\ cfg.codec = "cbor" /\ "type" \in DOMAIN cfg) =>
        /\ result.valid = in_safe_range
        /\ in_safe_range =>
               /\ result.out.ok
               /\ Len(result.out.writer) = 9
               /\ result.out.writer[1] = 251
        /\ ~in_safe_range =>
               /\ ~result.out.ok
               /\ result.out.err = IF cfg.type = "u64" THEN "InvalidUnsignedInteger"
                                   ELSE "InvalidSignedInteger"

---------------------------------------------------------------------------
(* value.rs: the capacity a visitor reserves for an array or an object,     *)
(* from the size_hint of the binary decoder's CollectionAccessor.           *)

\* static MAX_ALLOC: usize = 2048
MAX_ALLOC == 2048

\* CollectionAccessor::size_hint of the cbor deserializer: Some(self.len)
cbor_size_hint(length) == Some(length)

\* visit_seq, visit_map: with_capacity(std::cmp::min(size_hint().unwrap_or(0), MAX_ALLOC))
with_capacity_of(hint) == Min(IF hint.some THEN hint.val ELSE 0, MAX_ALLOC)

\* deserialize_array, deserialize_object up to the first line of the visitor: the
\* capacity reserved for the collection at the head of the input
cbor_reserved(input) ==
    Try(decode_len(Tail(input), Head(input)), LAMBDA length :
        Ok(with_capacity_of(cbor_size_hint(as_usize(length.val))), length.input))

\* the elements present behind a header: nulls in an array, entries "a": null,
\* "b": null, ... in a map
present_elements(major, k) ==
    IF major = ArrayMajor THEN [i \in 1..k |-> 246]
    ELSE Concat([i \in 1..k |-> <<97, 96 + i, 246>>])

\* the length fields of the headers: the additional info, the bytes of the field and
\* the length they declare, as a u64
LengthFields ==
    {[info |-> t, field |-> <<>>, declared |-> u64_of(t)] : t \in 0..23}
        \cup {[info |-> 24, field |-> <<b>>, declared |-> u64_of(b)] : b \in {0, 1, 2, 3, 24, 255}}
        \cup {[info |-> 25, field |-> <<a, b>>, declared |-> <<0, 0, 0, 0, 0, 0, a, b>>] :
                  a \in {0, 1, 8}, b \in {0, 1, 2}}
        \cup {[info |-> 26, field |-> <<a, b, c, d>>, declared |-> <<0, 0, 0, 0, a, b, c, d>>] :
                  a \in {0, 1}, b \in {0, 1}, c \in {0, 8}, d \in {0, 1, 2}}
        \cup {[info |-> 27, field |-> <<a, 0, 0, 0, 0, 0, g, h>>,
               declared |-> <<a, 0, 0, 0, 0, 0, g, h>>] :
                  a \in {0, 1, 2, 3}, g \in {0, 8}, h \in {0, 1, 2}}

\* at most this many elements are present behind a header
MaxPresent == 3

InitAlloc ==
    /\ map = EmptyMap /\ map2 = EmptyMap
    /\ firstSeen = <<>>
    /\ bound = [k \in {} |-> Null]
    /\ ret = None
    /\ ninserts = 0
    /\ pc = "visit"
    /\ \E le \in BOOLEAN : cfg = [codec |-> "cbor", littleEndian |-> le]
    /\ \E major \in {ArrayMajor, MapMajor}, l \in LengthFields, k \in 0..MaxPresent :
           /\ bytes = <<major + l.info>> \o l.field \o present_elements(major, k)
           /\ value = [declared |-> l.declared, present |-> k]
    /\ bytes2 = <<>>
    /\ result = None

\* from_slice on a collection: the capacity the visitor reserves, and the outcome
VisitCollection ==
    /\ pc = "visit"
    /\ result' = [capacity |-> cbor_reserved(bytes), out |-> cbor_from_slice(bytes)]
    /\ pc' = "done"
    /\ UNCHANGED <<map, map2, firstSeen, bound, ret, ninserts, value, bytes, bytes2, cfg>>

NextAlloc == VisitCollection

SpecAlloc == InitAlloc /\ [][NextAlloc]_vars

\* the declared length n is larger than the small number k
declares_more_than(n, k) == (\E i \in 1..7 : n[i] # 0) \/ n[8] > k

\* min(n, 2048) of a declared length n
declared_or_max_alloc(n) ==
    IF (\E i \in 1..6 : n[i] # 0) \/ n[7] >= 8 THEN 2048 ELSE n[7] * 256 + n[8]

(* C21: whatever length an array or object header declares, the capacity the *)
(* visitor reserves before reading any element is at most 2048 entries, the  *)
(* min of the declared length and MAX_ALLOC; and a declared length larger    *)
(* than the number of elements present makes the decode fail.                *)
C21_CapacityIsCappedAndShortInputFails ==
    pc = "done" =>
        /\ result.capacity.ok
        /\ result.capacity.val <= 2048
        /\ result.capacity.val = declared_or_max_alloc(value.declared)
        /\ declares_more_than(value.declared, value.present) => ~result.out.ok

---------------------------------------------------------------------------
(* C22 *)

\* the byte may be the last one of an element or of a key
ends_item(byte) == byte \notin {91, 123, 44, 58}

\* the byte may be the first one of an element or of a key
starts_item(byte) == byte \notin {93, 125, 44, 58}

(* C22: in compact mode the output of the text encoder holds no whitespace  *)
(* byte (0x09, 0x0A, 0x0D, 0x20) outside string literals, and a comma or a  *)
(* colon outside a string stands only between two elements or between a    *)
(* key and its value: there is one comma less than elements in every        *)
(* non-empty collection and one colon for every entry.                      *)
C22_CompactHasNoWhitespace ==
    (pc # "encode" /\ cfg.compact) =>
        LET outside == outside_strings(bytes, FALSE, FALSE)
            cs == collections_of(value)
            nonempty == SelectSeq(cs, LAMBDA c : size_of(c) > 0)
        IN  /\ \A i \in DOMAIN bytes : outside[i] =>
                /\ bytes[i] \notin {9, 10, 13, 32}
                /\ bytes[i] = 44 =>
                       /\ i > 1 /\ ends_item(bytes[i - 1])
                       /\ i < Len(bytes) /\ starts_item(bytes[i + 1])
                /\ bytes[i] = 58 =>
                       /\ i > 1 /\ bytes[i - 1] = 34
                       /\ i < Len(bytes) /\ starts_item(bytes[i + 1])
            /\ count_outside(bytes, {44})
                   = sum_seq([i \in DOMAIN nonempty |-> size_of(nonempty[i]) - 1])
            /\ count_outside(bytes, {58})
                   = sum_seq([i \in DOMAIN cs |-> IF cs[i].t = "Object" THEN size_of(cs[i]) ELSE 0])

\* a compact output with a comma and a colon outside its strings, and with a space, a
\* comma and a colon inside one
C22_Witness ==
    /\ pc # "encode" /\ cfg.compact
    /\ count_outside(bytes, {44}) > 0 /\ count_outside(bytes, {58}) > 0
    /\ \A b \in {32, 44, 58} :
           \E i \in DOMAIN bytes : bytes[i] = b /\ ~outside_strings(bytes, FALSE, FALSE)[i]

---------------------------------------------------------------------------
(* data/legacy_f64.rs, abstract_/mod.rs: the order of LegacyF64.            *)

\* f.is_nan(): the exponent is all ones and the mantissa is not zero
f64_is_nan(f) ==
    /\ f[1] % 128 = 127 /\ f[2] >= 240
    /\ (f[2] # 240 \/ \E i \in 3..8 : f[i] # 0)

\* the order of two byte strings of one length, the first byte the most significant
bytes_cmp(a, b) ==
    IF a = b THEN "Equal"
    ELSE LET i == CHOOSE k \in DOMAIN a : a[k] # b[k] /\ \A j \in 1..(k - 1) : a[j] = b[j]
         IN  IF a[i] < b[i] THEN "Less" ELSE "Greater"

\* Ordering::reverse
reverse(o) == IF o = "Less" THEN "Greater" ELSE IF o = "Greater" THEN "Less" ELSE o

\* a mutant of f64_partial_cmp: the bit patterns are compared as unsigned integers
f64_partial_cmp_of_bits(a, b) == Some(bytes_cmp(a, b))

\* #[derive(PartialOrd)] on LegacyF64(f64): f64::partial_cmp, which is None when an
\* operand is a NaN, takes the two zeros as equal and orders the others by sign and
\* then by magnitude
f64_partial_cmp(a, b) ==
    IF f64_is_nan(a) \/ f64_is_nan(b) THEN None
    ELSE IF f64_is_zero(a) /\ f64_is_zero(b) THEN Some("Equal")
    ELSE IF (a[1] >= 128) # (b[1] >= 128) THEN Some(IF a[1] >= 128 THEN "Less" ELSE "Greater")
    ELSE LET m == bytes_cmp(<<a[1] % 128>> \o Tail(a), <<b[1] % 128>> \o Tail(b))
         IN  Some(IF a[1] >= 128 THEN reverse(m) ELSE m)

\* impl Ord for LegacyF64: self.partial_cmp(other).unwrap()
legacy_f64_cmp(a, b) ==
    LET o == f64_partial_cmp(a, b) IN IF o.some THEN o.val ELSE "panic"

\* floats in ascending order: -MAX, -100, -1.5, -1, -0.5, -5e-324, 0, 5e-324, 0.5, 1,
\* 1.5, 2, 100, MAX
AscendingFloats == <<
    <<255, 239, 255, 255, 255, 255, 255, 255>>,
    <<192, 89, 0, 0, 0, 0, 0, 0>>,
    <<191, 248, 0, 0, 0, 0, 0, 0>>,
    <<191, 240, 0, 0, 0, 0, 0, 0>>,
    <<191, 224, 0, 0, 0, 0, 0, 0>>,
    <<128, 0, 0, 0, 0, 0, 0, 1>>,
    <<0, 0, 0, 0, 0, 0, 0, 0>>,
    <<0, 0, 0, 0, 0, 0, 0, 1>>,
    <<63, 224, 0, 0, 0, 0, 0, 0>>,
    <<63, 240, 0, 0, 0, 0, 0, 0>>,
    <<63, 248, 0, 0, 0, 0, 0, 0>>,
    <<64, 0, 0, 0, 0, 0, 0, 0>>,
    <<64, 89, 0, 0, 0, 0, 0, 0>>,
    <<127, 239, 255, 255, 255, 255, 255, 255>>
>>

\* the f64s handed to from_f64: the floats above and the ones that are no LegacyF64
OrdInputs == Range(AscendingFloats) \cup {NegZeroBits, InfBits, NegInfBits, NaNBits}

InitOrd ==
    /\ map = EmptyMap /\ map2 = EmptyMap
    /\ firstSeen = <<>>
    /\ bound = [k \in {} |-> Null]
    /\ ret = None
    /\ ninserts = 0
    /\ pc = "from_f64"
    /\ \E m \in {"data", "abstract_"} : cfg = [codec |-> "f64", module |-> m]
    /\ bytes \in OrdInputs /\ bytes2 \in OrdInputs
    /\ \E f \in OrdInputs : value = Float(f)
    /\ result = None

\* three calls of LegacyF64::from_f64
FromF64 ==
    /\ pc = "from_f64"
    /\ LET from(f) == IF cfg.module = "data" THEN from_f64(f) ELSE abstract_from_f64(f)
       IN  ret' = <<from(bytes), from(bytes2), from(value.f)>>
    /\ pc' = "cmp"
    /\ UNCHANGED <<map, map2, firstSeen, bound, ninserts, value, bytes, bytes2, result, cfg>>

\* a.cmp(&b) for every two of the three LegacyF64
Compare ==
    /\ pc = "cmp"
    /\ \A i \in 1..3 : ret[i].some
    /\ result' = [i \in 1..3 |-> [j \in 1..3 |-> legacy_f64_cmp(ret[i].val, ret[j].val)]]
    /\ pc' = "done"
    /\ UNCHANGED <<map, map2, firstSeen, bound, ret, ninserts, value, bytes, bytes2, cfg>>

NextOrd == FromF64 \/ Compare

SpecOrd == InitOrd /\ [][NextOrd]_vars

\* the place of a float in the ascending list
rank(f) == CHOOSE i \in DOMAIN AscendingFloats : AscendingFloats[i] = f

(* C23: for every two LegacyF64 obtained from from_f64, cmp returns Less,    *)
(* Equal or Greater and never panics, and the relation is a total order     *)
(* (antisymmetric, transitive, total) that agrees with numeric comparison.  *)
C23_CmpIsTotalOrder ==
    pc = "done" =>
        /\ \A i, j \in 1..3 :
              /\ result[i][j] \in {"Less", "Equal", "Greater"}
              /\ result[i][j] = reverse(result[j][i])
              /\ (result[i][j] = "Equal") = (ret[i].val = ret[j].val)
              /\ (result[i][j] = "Less") = (rank(ret[i].val) < rank(ret[j].val))
              /\ (result[i][j] = "Greater") = (rank(ret[i].val) > rank(ret[j].val))
        /\ \A i, j, k \in 1..3 :
              (result[i][j] \in {"Less", "Equal"} /\ result[j][k] \in {"Less", "Equal"})
                  => result[i][k] \in {"Less", "Equal"}

\* -1.5 < -5e-324 < 0.5 were compared
C23_Witness ==
    /\ pc = "done"
    /\ ret[1].val = AscendingFloats[3] /\ ret[2].val = AscendingFloats[6]
    /\ ret[3].val = AscendingFloats[9]
    /\ result[1][2] = "Less" /\ result[2][3] = "Less" /\ result[3][1] = "Greater"
    /\ result[2][2] = "Equal"

---------------------------------------------------------------------------
(* The decoders step by step: one step for the value at the top, one for    *)
(* every turn of a visitor's loop (next_element_seed, or next_key_seed and  *)
(* next_value_seed) together with the start of the value it reads, one for  *)
(* end().  firstSeen is the stack of the CollectionAccessors of the         *)
(* collections being read, bytes2 the input left, ninserts the steps taken. *)

\* json: CollectionAccessor { des, first }, with the HashMap the visitor has built so far
JsonAccessor(kind) == [kind |-> kind, first |-> TRUE, m |-> <<>>]

\* cbor: CollectionAccessor { des, len }, with the map the visitor has built so far
CborAccessor(kind, length) == [kind |-> kind, len |-> length, m |-> <<>>]

\* what the start of a value comes to: a whole scalar ("leaf"), or the header of a
\* collection ("open") with the accessor handed to the visitor
Opened(acc, input) == Ok([t |-> "open", acc |-> acc], input)
LeafRead(input) == Ok([t |-> "leaf"], input)

\* a mutant of json_begin_value: the opening bracket is left in the input
json_begin_value_keeps_bracket(input) ==
    Try(peek_ws(input), LAMBDA p :
        IF p.val \in {91, 123}
        THEN Opened(JsonAccessor(IF p.val = 91 THEN "array" ELSE "object"), p.input)
        ELSE Try(json_deserialize_any(input), LAMBDA r : LeafRead(r.input)))

\* json deserialize_any up to the call of the visitor
json_begin_value(input) ==
    Try(peek_ws(input), LAMBDA p :
        IF p.val \in {91, 123}
        THEN Opened(JsonAccessor(IF p.val = 91 THEN "array" ELSE "object"), Tail(p.input))
        ELSE Try(json_deserialize_any(input), LAMBDA r : LeafRead(r.input)))

\* cbor deserialize_any up to the call of the visitor
cbor_begin_value(input) ==
    IF input # <<>> /\ (is_array_tag(Head(input)) \/ is_map_tag(Head(input))) THEN
        Try(decode_len(Tail(input), Head(input)), LAMBDA length :
            Opened(CborAccessor(IF is_array_tag(Head(input)) THEN "array" ELSE "object",
                                as_usize(length.val)),
                   length.input))
    ELSE Try(cbor_deserialize_any(input), LAMBDA r : LeafRead(r.input))

begin_value(input) ==
    IF cfg.codec = "json" THEN json_begin_value(input) ELSE cbor_begin_value(input)

\* what a turn of a visitor's loop comes to before the value is read: the end of the
\* collection, or the accessor as it is then
AtEnd(input) == Ok([end |-> TRUE], input)
AtValue(acc, input) == Ok([end |-> FALSE, acc |-> acc], input)

\* json next_element_seed up to seed.deserialize; at the end, deserialize_array expects
\* the bracket
json_next_element(acc, input) ==
    Try(peek_ws(input), LAMBDA p :
        IF p.val = 93 THEN AtEnd(Tail(p.input))
        ELSE
        Try(IF acc.first THEN p ELSE expect_ws_err(p.input, 44, "Syntax"), LAMBDA comma :
        Try(peek_ws(comma.input), LAMBDA ws :
            AtValue([acc EXCEPT !.first = FALSE], ws.input))))

\* json next_key_seed, and next_value_seed up to seed.deserialize; at the end,
\* deserialize_object expects the bracket
json_next_entry(acc, input) ==
    Try(peek_ws(input), LAMBDA p :
        IF p.val = 125 THEN AtEnd(Tail(p.input))
        ELSE
        Try(IF acc.first THEN p ELSE expect_ws_err(p.input, 44, "Syntax"), LAMBDA comma :
        Try(peek_ws(comma.input), LAMBDA ws :
        Try(json_parse_string(ws.input), LAMBDA key :
            IF has_key(acc.m, key.val) THEN Err("DuplicateKey")
            ELSE
            Try(expect_ws_err(key.input, 58, "Syntax"), LAMBDA colon :
            Try(peek_ws(colon.input), LAMBDA ws2 :
                AtValue([acc EXCEPT !.first = FALSE, !.m = hash_insert(@, key.val, Null)],
                        ws2.input)))))))

\* cbor next_element_seed up to seed.deserialize
cbor_next_element(acc, input) ==
    IF acc.len = 0 THEN AtEnd(input) ELSE AtValue([acc EXCEPT !.len = @ - 1], input)

\* cbor next_key_seed, and next_value_seed up to seed.deserialize
cbor_next_entry(acc, input) ==
    IF acc.len = 0 THEN AtEnd(input)
    ELSE Try(cbor_parse_str(input), LAMBDA key :
             IF has_key(acc.m, key.val) THEN Err("DuplicateKey")
             ELSE AtValue([acc EXCEPT !.len = @ - 1, !.m = hash_insert(@, key.val, Null)],
                          key.input))

Top(stack) == stack[Len(stack)]
Pop(stack) == SubSeq(stack, 1, Len(stack) - 1)
SetTop(stack, acc) == [stack EXCEPT ![Len(stack)] = acc]

\* the step ends the decode with an error
Fail(e) == [stack |-> firstSeen, input |-> bytes2, pc |-> "done", result |-> Err(e)]

\* the step goes on behind the start b of a value, under the accessors given
GoOn(stack, b) ==
    [stack |-> IF b.val.t = "open" THEN Append(stack, b.val.acc) ELSE stack,
     input |-> b.input, pc |-> "next", result |-> result]

\* the visitor's loop is over: the collection is a value of the enclosing one
Return(input) == [stack |-> Pop(firstSeen), input |-> input, pc |-> "next", result |-> result]

\* the `?` operator of a step
OrFail(r, Continue(_)) == IF r.ok THEN Continue(r) ELSE Fail(r.err)

\* a turn n of a visitor's loop, and the start of the value it reads
Turn(n) ==
    IF n.val.end THEN Return(n.input)
    ELSE OrFail(begin_value(n.input), LAMBDA b : GoOn(SetTop(firstSeen, n.val.acc), b))

\* the state behind a step
Becomes(n) ==
    /\ firstSeen' = n.stack
    /\ bytes2' = n.input
    /\ pc' = n.pc
    /\ result' = n.result
    /\ ninserts' = ninserts + 1
    /\ UNCHANGED <<map, map2, bound, ret, value, bytes, cfg>>

\* Deserialize::deserialize on the input
StartValue ==
    /\ pc = "start"
    /\ \E n \in {OrFail(begin_value(bytes2), LAMBDA b : GoOn(firstSeen, b))} : Becomes(n)

\* json visit_array: one turn of the loop over next_element_seed
JsonNextElement ==
    /\ pc = "next" /\ cfg.codec = "json" /\ firstSeen # <<>> /\ Top(firstSeen).kind = "array"
    /\ \E n \in {OrFail(json_next_element(Top(firstSeen), bytes2), Turn)} : Becomes(n)

\* json visit_object: one turn of the loop over next_entry_seed
JsonNextEntry ==
    /\ pc = "next" /\ cfg.codec = "json" /\ firstSeen # <<>> /\ Top(firstSeen).kind = "object"
    /\ \E n \in {OrFail(json_next_entry(Top(firstSeen), bytes2), Turn)} : Becomes(n)

\* cbor visit_array: one turn of the loop over next_element_seed
CborNextElement ==
    /\ pc = "next" /\ cfg.codec = "cbor" /\ firstSeen # <<>> /\ Top(firstSeen).kind = "array"
    /\ \E n \in {OrFail(cbor_next_element(Top(firstSeen), bytes2), Turn)} : Becomes(n)

\* cbor visit_object: one turn of the loop over next_entry_seed
CborNextEntry ==
    /\ pc = "next" /\ cfg.codec = "cbor" /\ firstSeen # <<>> /\ Top(firstSeen).kind = "object"
    /\ \E n \in {OrFail(cbor_next_entry(Top(firstSeen), bytes2), Turn)} : Becomes(n)

\* from_slice: de.end() behind the value
End ==
    /\ pc = "next" /\ firstSeen = <<>>
    /\ result' = IF cfg.codec = "json" THEN json_end(bytes2) ELSE cbor_end(bytes2)
    /\ pc' = "done"
    /\ ninserts' = ninserts + 1
    /\ UNCHANGED <<map, map2, firstSeen, bound, ret, bytes2, value, bytes, cfg>>

NextSteps ==
    StartValue \/ JsonNextElement \/ JsonNextEntry \/ CborNextElement \/ CborNextEntry \/ End

\* the inputs are made of at most this many tokens
MaxTokens == 3

\* the texts of at most n of the tokens
RECURSIVE TokenTexts(_, _)
TokenTexts(tokens, n) ==
    IF n = 0 THEN {<<>>}
    ELSE {<<>>} \cup {t \o s : t \in tokens, s \in TokenTexts(tokens, n - 1)}

\* [ ] { } , : "a" null and a space
JsonTokens ==
    {<<91>>, <<93>>, <<123>>, <<125>>, <<44>>, <<58>>, <<34, 97, 34>>, <<110, 117, 108, 108>>,
     <<32>>}

\* [[],[[]]]   {"a":[1,null],"b":{}}   {"a":1,"a":1}   [ 1 , 1 ]   [1,1,1,1
JsonLongTexts == {
    <<91, 91, 93, 44, 91, 91, 93, 93, 93>>,
    <<123, 34, 97, 34, 58, 91, 49, 44, 110, 117, 108, 108, 93, 44, 34, 98, 34, 58, 123, 125, 125>>,
    <<123, 34, 97, 34, 58, 49, 44, 34, 97, 34, 58, 49, 125>>,
    <<32, 91, 32, 49, 32, 44, 32, 49, 32, 93, 32>>,
    <<91, 49, 44, 49, 44, 49, 44, 49>>
}

\* the headers of an empty array, of an array of 2, of an array with a four-byte length
\* field (1, or 2^24 when the bytes are swapped), of a map of 1; "a"; null; a forbidden byte
CborTokens == {<<128>>, <<130>>, <<154, 0, 0, 0, 1>>, <<161>>, <<97, 97>>, <<246>>, <<255>>}

\* an array and a map that declare 2^64 - 1 elements and hold two and one; [[], {"a": null}];
\* {"a": null, "a": null}; [[[null, null], null], null]
CborLongTexts == {
    <<155, 255, 255, 255, 255, 255, 255, 255, 255, 246, 246>>,
    <<187, 255, 255, 255, 255, 255, 255, 255, 255, 97, 97, 246>>,
    <<130, 128, 161, 97, 97, 246>>,
    <<162, 97, 97, 246, 97, 97, 246>>,
    <<130, 130, 130, 246, 246, 246, 246>>
}

InitSteps ==
    /\ map = EmptyMap /\ map2 = EmptyMap
    /\ firstSeen = <<>>
    /\ bound = [k \in {} |-> Null]
    /\ ret = None
    /\ ninserts = 0
    /\ pc = "start"
    /\ value = Null
    /\ \/ /\ cfg = [codec |-> "json"]
          /\ bytes \in TokenTexts(JsonTokens, MaxTokens) \cup JsonLongTexts
       \/ /\ \E le \in BOOLEAN : cfg = [codec |-> "cbor", littleEndian |-> le]
          /\ bytes \in TokenTexts(CborTokens, MaxTokens) \cup CborLongTexts
    /\ bytes2 = bytes
    /\ result = None

SpecSteps == InitSteps /\ [][NextSteps]_vars

\* a step can be taken: the guards of the actions, each of which is defined on every
\* state its guard admits
can_step ==
    \/ pc = "start"
    \/ pc = "next" /\ firstSeen = <<>>
    \/ pc = "next" /\ firstSeen # <<>> /\ Top(firstSeen).kind \in {"array", "object"}

\* a step of the decoder, by what every action does: it counts in ninserts
Running == pc # "done" /\ ninserts' = ninserts + 1

\* the decoder is sequential code that runs until it returns: as long as it has not
\* returned, its next step is taken
SpecStepsLive == SpecSteps /\ WF_ninserts(Running)

\* what from_slice returns, its value left out
outcome(r) == IF r.ok THEN [ok |-> TRUE] ELSE r

\* the decode is over with the outcome of from_slice, Ok or an Err
returned ==
    /\ pc = "done"
    /\ outcome(result) =
           outcome(IF cfg.codec = "json" THEN json_from_slice(bytes) ELSE cbor_from_slice(bytes))

\* a step reads at least one byte, or ends the decode, or ends the loop over a collection
\* whose header was read
step_makes_progress ==
    \/ Len(bytes2') < Len(bytes2)
    \/ pc' = "done"
    \/ Len(firstSeen') < Len(firstSeen)

---------------------------------------------------------------------------
(* C25 *)

\* the keys of a bucket
keys_of(entries) == {entries[i].k : i \in DOMAIN entries}

\* the buckets are disjoint, the natural-like keys are in the sorted bucket only and
\* the other keys in the insertion-ordered bucket only, and len() is the number of
\* distinct keys inserted
buckets_are_disjoint ==
    /\ keys_of(map.naturals) \cap keys_of(map.others) = {}
    /\ \A k \in keys_of(map.naturals) : NaturalLike(k)
    /\ \A k \in keys_of(map.others) : ~NaturalLike(k)
    /\ keys_of(map.naturals) \cup keys_of(map.others) = DOMAIN bound
    /\ len(map) = Cardinality(DOMAIN bound)

\* the call insert(k, v) returns Some(previous value) when k was bound and None otherwise
insert_returns_previous ==
    ret' = IF bytes' \in DOMAIN bound THEN Some(bound[bytes']) ELSE None

(* C25: RidiculousStringMap::insert(k, v) returns Some(previous value)       *)
(* exactly when k was already bound (in whichever bucket) and None           *)
(* otherwise; after any sequence of inserts no key is in both buckets, the   *)
(* natural-like keys are only in the sorted bucket and all other keys only   *)
(* in the insertion-ordered bucket, and len() equals the number of distinct  *)
(* keys inserted.                                                            *)
C25_InsertKeepsBucketsDisjoint ==
    /\ []buckets_are_disjoint
    /\ [][insert_returns_previous]_vars

\* "a" was inserted again, with another value than before, while both buckets hold keys
C25_Witness ==
    /\ bytes = <<97>> /\ ret.some /\ ret.val # value
    /\ len(map) = 3
    /\ <<48>> \in keys_of(map.naturals) /\ <<48, 49>> \in keys_of(map.others)


---------------------------------------------------------------------------
(* C26: when the duplicate-key check is made. The trait-based decoders      *)
(* (json/de.rs, data/cbor/de.rs) ask the seed has_key as soon as the key is  *)
(* read; the serde-based binary decoder (cbor/de.rs) is driven by            *)
(* ValueVisitor::visit_map of value.rs, which learns of a repeated key only  *)
(* from HashMap::insert, after the whole entry was read.                     *)

\* parse_string (cbor/de.rs and data/cbor/de.rs): the payload is copied out of
\* &self.input[..len], and self.input is left where decode_len left it
cbor_parse_string(input) ==
    Try(next(input), LAMBDA tag :
        IF tag.val >= 96 /\ tag.val <= 123
        THEN Try(decode_len(tag.input, tag.val), LAMBDA length :
                 IF Len(length.input) < as_usize(length.val) THEN Err("InvalidLength")
                 ELSE IF from_utf8_is_ok(Take(length.input, as_usize(length.val)))
                      THEN Ok(Take(length.input, as_usize(length.val)), length.input)
                      ELSE Err("InvalidStringContent"))
        ELSE Err("ExpectedString"))

RECURSIVE serde_deserialize_any(_), serde_visit_seq(_, _, _), serde_visit_map(_, _, _)

\* serde::Deserializer::deserialize_any of CborDeserializer, with ValueVisitor
serde_deserialize_any(input) ==
    IF input = <<>> THEN Err("UnexpectedEndOfInput")
    ELSE IF Head(input) = 244 THEN Ok(Bool(FALSE), Tail(input))
    ELSE IF Head(input) = 245 THEN Ok(Bool(TRUE), Tail(input))
    ELSE IF Head(input) = 246 THEN Ok(Null, Tail(input))
    ELSE IF Head(input) = 251 THEN
        Try(cbor_parse_number(input), LAMBDA r : Ok(Float(r.val), r.input))
    ELSE IF is_str_tag(Head(input)) THEN
        \* deserialize_str
        Try(cbor_parse_str(input), LAMBDA r : Ok(String(r.val), r.input))
    ELSE IF is_array_tag(Head(input)) THEN
        \* deserialize_seq
        Try(decode_len(Tail(input), Head(input)), LAMBDA length :
            serde_visit_seq(length.input, as_usize(length.val), <<>>))
    ELSE IF is_map_tag(Head(input)) THEN
        \* deserialize_map
        Try(decode_len(Tail(input), Head(input)), LAMBDA length :
            serde_visit_map(length.input, as_usize(length.val), <<>>))
    ELSE Err("ForbiddenType")

\* ValueVisitor::visit_seq: the loop over SeqAccess::next_element
serde_visit_seq(input, length, v) ==
    IF length = 0 THEN Ok(Array(v), input)
    ELSE Try(serde_deserialize_any(input), LAMBDA inner :
             serde_visit_seq(inner.input, length - 1, Append(v, inner.val)))

\* ValueVisitor::visit_map: the loop over MapAccess::next_entry::<String, Value>, which
\* is next_key_seed (String::deserialize, that is deserialize_string), then
\* next_value_seed; only then m.insert(key, val) tells whether the key was bound
serde_visit_map(input, length, m) ==
    IF length = 0 THEN Ok(Object(m), input)
    ELSE Try(cbor_parse_string(input), LAMBDA key :
             Try(serde_deserialize_any(key.input), LAMBDA val :
                 IF has_key(m, key.val) THEN Err("Message")
                 ELSE serde_visit_map(val.input, length - 1,
                                      hash_insert(m, key.val, val.val))))

\* cbor::from_slice::<Value> of the serde-based decoder
serde_from_slice(input) ==
    Try(serde_deserialize_any(input), LAMBDA r :
        Try(cbor_end(r.input), LAMBDA e : Ok(r.val, <<>>)))

\* json keys as they are spelled, and the strings they stand for
JsonKeys == {
    [text |-> <<34, 97, 34>>, str |-> <<97>>],                        \* "a"
    [text |-> <<34, 92, 117, 48, 48, 54, 49, 34>>, str |-> <<97>>],   \* "a"
    [text |-> <<34, 34>>, str |-> <<>>],                              \* ""
    [text |-> <<34, 98, 34>>, str |-> <<98>>]                         \* "b"
}

\* cbor keys as they are spelled, and the strings they stand for
CborKeys == {
    [text |-> <<97, 97>>, str |-> <<97>>],        \* length in the tag
    [text |-> <<120, 1, 97>>, str |-> <<97>>],    \* length in one byte
    [text |-> <<96>>, str |-> <<>>],
    [text |-> <<97, 98>>, str |-> <<98>>]
}

\* json: the value of the first entry
JsonFirstValues == {<<110, 117, 108, 108>>, <<91, 93>>, <<34, 97, 34>>}

\* cbor: the value of the first entry
CborFirstValues == {<<246>>, <<128>>, <<97, 97>>}

\* json: what follows the second key: a malformed, a forbidden or a truncated value
JsonBadValues == {
    <<>>,                               \* the input ends behind the key
    <<58>>,                             \* the input ends behind the colon
    <<58, 93, 125>>,                    \* :]}
    <<58, 116, 114, 117, 125>>,         \* :tru}
    <<58, 45, 125>>,                    \* :-}
    <<58, 34, 92, 120, 34, 125>>,       \* :"\x"}
    <<58, 34, 97>>,                     \* :"a
    <<58, 91, 44, 93, 125>>             \* :[,]}
}

\* cbor: what follows the second key: a malformed, a forbidden or a truncated value
CborBadValues == {
    <<>>,                                       \* the input ends behind the key
    <<0>>,                                      \* an integer major
    <<255>>,                                    \* a break
    <<249, 0, 0>>,                              \* a half-precision float
    <<251, 127, 248, 0, 0, 0, 0, 0, 0>>,        \* a NaN
    <<251, 0, 0>>,                              \* a float cut short
    <<98, 97>>,                                 \* a string cut short
    <<97, 255>>,                                \* a string that is not utf8
    <<129>>                                     \* an array cut short
}

\* an object of two entries, the second with the bad value
JsonTwoEntries(k1, v1, k2, bad) == <<123>> \o k1 \o <<58>> \o v1 \o <<44>> \o k2 \o bad

CborTwoEntries(k1, v1, k2, bad) == <<162>> \o k1 \o v1 \o k2 \o bad

InitDup ==
    /\ map = EmptyMap /\ map2 = EmptyMap
    /\ firstSeen = <<>>
    /\ bound = [k \in {} |-> Null]
    /\ ret = None
    /\ ninserts = 0
    /\ pc = "decode"
    /\ \/ /\ cfg = [codec |-> "json", decoder |-> "traits"]
          /\ \E k1 \in JsonKeys, k2 \in JsonKeys, v1 \in JsonFirstValues, bad \in JsonBadValues :
                /\ bytes = JsonTwoEntries(k1.text, v1, k2.text, bad)
                /\ bytes2 = JsonTwoEntries(k1.text, v1, k2.text, <<58, 110, 117, 108, 108, 125>>)
                /\ value = [repeated |-> k1.str = k2.str, bad |-> bad]
       \/ /\ \E d \in {"traits", "serde"} : cfg = [codec |-> "cbor", decoder |-> d]
          /\ \E k1 \in CborKeys, k2 \in CborKeys, v1 \in CborFirstValues, bad \in CborBadValues :
                /\ bytes = CborTwoEntries(k1.text, v1, k2.text, bad)
                /\ bytes2 = CborTwoEntries(k1.text, v1, k2.text, <<246>>)
                /\ value = [repeated |-> k1.str = k2.str, bad |-> bad]
    /\ result = None

\* from_slice of the trait-based decoder of a codec
seed_from_slice(codec, input) ==
    IF codec = "json" THEN json_from_slice(input) ELSE cbor_from_slice(input)

\* from_slice of a trait-based decoder on the object with the bad value (result) and on
\* the same object with null in its place (ret)
DecodeWithSeed ==
    /\ pc = "decode" /\ cfg.decoder = "traits"
    /\ \E r \in {[input \in {bytes, bytes2} |-> seed_from_slice(cfg.codec, input)]} :
           result' = r[bytes] /\ ret' = r[bytes2]
    /\ pc' = "done"
    /\ UNCHANGED <<map, map2, firstSeen, bound, ninserts, value, bytes, bytes2, cfg>>

\* from_slice of the serde-based decoder, likewise
DecodeWithSerde ==
    /\ pc = "decode" /\ cfg.decoder = "serde"
    /\ \E r \in {[input \in {bytes, bytes2} |-> serde_from_slice(input)]} :
           result' = r[bytes] /\ ret' = r[bytes2]
    /\ pc' = "done"
    /\ UNCHANGED <<map, map2, firstSeen, bound, ninserts, value, bytes, bytes2, cfg>>

NextDup == DecodeWithSeed \/ DecodeWithSerde

SpecDup == InitDup /\ [][NextDup]_vars

(* C26: in both decoders the duplicate-key check is made when a key is read, *)
(* before the value of that entry is decoded: an object whose repeated key   *)
(* is followed by a malformed, forbidden or truncated value fails with       *)
(* DuplicateKey and not with the error of the value.                         *)
C26_DuplicateKeyBeforeValue ==
    (pc = "done" /\ value.repeated) => result = Err("DuplicateKey")

\* the same, of the trait-based decoders alone
duplicate_key_before_value_with_seed ==
    (pc = "done" /\ value.repeated /\ cfg.decoder = "traits") => result = Err("DuplicateKey")

\* the bad value is one: with a key that is not repeated the decode fails with an
\* error of its own, and with null in its place it succeeds
bad_value_fails ==
    (pc = "done" /\ ~value.repeated /\ cfg.decoder = "traits") =>
        /\ ~result.ok /\ result.err # "DuplicateKey"
        /\ ret.ok


---------------------------------------------------------------------------
(* parse_string on its own: a json string literal of escapes is read, and    *)
(* what is decoded and what is left of the input are both kept.              *)

\* the four hex digits of escapes of high and of low surrogates
HighDigits == {<<100, 56, 48, 48>>, <<100, 56, 51, 100>>, <<68, 56, 51, 68>>, <<100, 98, 102, 102>>}

LowDigits == {<<100, 99, 48, 48>>, <<100, 101, 48, 48>>, <<68, 69, 48, 48>>, <<100, 102, 102, 102>>}

\* what stands in the literal before and behind the escapes
PlainTexts == {<<>>, <<97>>, <<195, 169>>}

\* what stands in the input behind the literal
BehindLiteral == {<<>>, <<44>>, <<34>>}

\* the bytes that may stand in the four places behind `\u`
EscapeBytes == {48, 52, 49, 97, 70, 43, 45, 103, 32}

\* how many bytes of EscapeBytes stand behind `\u`, if the input ends there
CutShort == 0..3

\* `\u` and four bytes
escape_of(four) == <<92, 117>> \o four

InitEscape ==
    /\ map = EmptyMap /\ map2 = EmptyMap
    /\ firstSeen = <<>>
    /\ bound = [k \in {} |-> Null]
    /\ ret = None
    /\ ninserts = 0
    /\ pc = "parse_string"
    /\ \/ /\ cfg = [codec |-> "json", input |-> "pair"]
          /\ \E h \in HighDigits, l \in LowDigits, before \in PlainTexts, behind \in PlainTexts,
                rest \in BehindLiteral :
                /\ bytes = <<34>> \o before \o escape_of(h) \o escape_of(l) \o behind
                               \o <<34>> \o rest
                /\ value = [high |-> h, low |-> l, before |-> before, behind |-> behind,
                            rest |-> rest]
       \/ /\ cfg = [codec |-> "json", input |-> "escape"]
          /\ \E four \in [1..4 -> EscapeBytes], behind \in {<<>>, <<97>>} :
                /\ bytes = <<34>> \o escape_of(four) \o behind \o <<34>>
                /\ value = [four |-> four, behind |-> behind]
       \/ /\ cfg = [codec |-> "json", input |-> "cut short"]
          /\ \E n \in CutShort : \E few \in [1..n -> EscapeBytes] :
                /\ bytes = <<34, 92, 117>> \o few
                /\ value = [few |-> few]
    /\ bytes2 = <<>>
    /\ result = None

\* result = self.parse_string(), with self.input as it is left
ParseString ==
    /\ pc = "parse_string"
    /\ result' = json_parse_string(bytes)
    /\ pc' = "done"
    /\ UNCHANGED <<map, map2, firstSeen, bound, ret, ninserts, value, bytes, bytes2, cfg>>

NextEscape == ParseString

SpecEscape == InitEscape /\ [][NextEscape]_vars

\* the supplementary code point a pair of surrogates stands for
pair_scalar(h, l) == 65536 + (hex4_value(h, 1) - 55296) * 1024 + (hex4_value(l, 1) - 56320)

(* C27: when the text decoder reads an escaped high surrogate immediately     *)
(* followed by an escaped low surrogate, it appends exactly one scalar value, *)
(* the combined supplementary code point, to the decoded string and consumes  *)
(* all 12 bytes of the two escapes, so that the next byte examined is the one *)
(* behind the four hex digits of the second escape.                           *)
C27_SurrogatePairIsOneScalar ==
    (pc = "done" /\ cfg.input = "pair") =>
        result = Ok(value.before \o encode_utf8(pair_scalar(value.high, value.low))
                        \o value.behind,
                    value.rest)

\* what is decoded in its place: the scalar, and then the four digits of the second
\* escape once more, as plain text
pair_then_digits ==
    (pc = "done" /\ cfg.input = "pair") =>
        result = Ok(value.before \o encode_utf8(pair_scalar(value.high, value.low))
                        \o value.low \o value.behind,
                    value.rest)

(* C29: the text decoder accepts a \u escape only when the four bytes behind  *)
(* the `u` are all hexadecimal digits; any other four bytes, such as a `+`    *)
(* and three hex digits, or fewer than four remaining bytes, yield            *)
(* InvalidStringContent.                                                      *)
C29_EscapeNeedsFourHexDigits ==
    /\ (pc = "done" /\ cfg.input = "escape" /\ ~hex4_at(value.four, 1))
           => result = Err("InvalidStringContent")
    /\ (pc = "done" /\ cfg.input = "cut short") => result = Err("InvalidStringContent")

\* the part of it that holds: a sign is what gets through, and nothing else
escape_needs_four_hex_digits_or_sign ==
    /\ (pc = "done" /\ cfg.input = "escape" /\ ~hex4_at(value.four, 1) /\ value.four[1] # 43)
           => result = Err("InvalidStringContent")
    /\ (pc = "done" /\ cfg.input = "escape" /\ hex4_at(value.four, 1))
           => result = Ok(encode_utf8(hex4_value(value.four, 1)) \o value.behind, <<>>)
    /\ (pc = "done" /\ cfg.input = "cut short") => result = Err("InvalidStringContent")


---------------------------------------------------------------------------
(* parse_str and parse_string of the binary decoder on their own: a text     *)
(* string item is read by either, and what is left of the input is kept.     *)

\* the payloads of the text strings read
StrPayloads == {<<>>, <<97>>, <<97, 98>>, <<195, 169>>, <<255>>, <<97, 98, 99>>, <<246>>}

\* the header of a text string of n bytes: the length in the tag, in one byte, in two
StrHeaders(n) == {<<96 + n>>, <<120, n>>, <<121, 0, n>>}

\* what stands in the input behind the text string: nothing, or a sibling value
BehindStr == {<<>>, <<246>>, <<97, 97>>}

InitParseStr ==
    /\ map = EmptyMap /\ map2 = EmptyMap
    /\ firstSeen = <<>>
    /\ bound = [k \in {} |-> Null]
    /\ ret = None
    /\ ninserts = 0
    /\ pc = "parse"
    /\ \E method \in {"parse_str", "parse_string"}, le \in BOOLEAN :
           cfg = [codec |-> "cbor", method |-> method, littleEndian |-> le]
    /\ \E payload \in StrPayloads, rest \in BehindStr :
           \E header \in StrHeaders(Len(payload)) :
               /\ bytes = header \o payload \o rest
               /\ value = [header |-> header, payload |-> payload, rest |-> rest]
    /\ bytes2 = <<>>
    /\ result = None

\* deserialize_str: result = self.parse_str(), with self.input as it is left, and
\* ret = self.end()
CborParseStr ==
    /\ pc = "parse" /\ cfg.method = "parse_str"
    /\ \E r \in {cbor_parse_str(bytes)} :
           /\ result' = r
           /\ ret' = IF r.ok THEN cbor_end(r.input) ELSE None
    /\ pc' = "done"
    /\ UNCHANGED <<map, map2, firstSeen, bound, ninserts, value, bytes, bytes2, cfg>>

\* deserialize_string: result = self.parse_string(), with self.input as it is left, and
\* ret = self.end()
CborParseString ==
    /\ pc = "parse" /\ cfg.method = "parse_string"
    /\ \E r \in {cbor_parse_string(bytes)} :
           /\ result' = r
           /\ ret' = IF r.ok THEN cbor_end(r.input) ELSE None
    /\ pc' = "done"
    /\ UNCHANGED <<map, map2, firstSeen, bound, ninserts, value, bytes, bytes2, cfg>>

NextParseStr == CborParseStr \/ CborParseString

SpecParseStr == InitParseStr /\ [][NextParseStr]_vars

(* C28: after parse_string of the binary decoder returns a string of declared *)
(* length n, the remaining input starts immediately behind the n bytes of the *)
(* payload, exactly as after parse_str; a following sibling value or the      *)
(* end-of-input check therefore sees the same position with either method.    *)
C28_ParseStringLeavesInputAsParseStr ==
    (pc = "done" /\ result.ok) =>
        /\ result.val = value.payload
        /\ result.input = value.rest
        /\ ret = cbor_end(value.rest)

\* what holds of parse_string in its place: the payload is still in the input
parse_string_leaves_payload ==
    (pc = "done" /\ cfg.method = "parse_string") =>
        /\ result.ok = cbor_parse_str(bytes).ok
        /\ ~result.ok => result = cbor_parse_str(bytes)
        /\ result.ok => /\ result.val = value.payload
                        /\ result.input = value.payload \o value.rest

\* and of parse_str the claim holds
parse_str_leaves_rest ==
    (pc = "done" /\ cfg.method = "parse_str" /\ result.ok) =>
        /\ result.val = value.payload
        /\ result.input = value.rest
        /\ ret = cbor_end(value.rest)


---------------------------------------------------------------------------
(* json/value.rs: the ValueOrdered of the json value module, whose objects   *)
(* keep the natural-like keys in a BTreeMap keyed by plain String, next to   *)
(* the ValueOrdered of value.rs, whose objects are RidiculousStringMaps. An  *)
(* object is read entry by entry into both, and both are then serialized.    *)

\* BTreeMap<String, _>::insert: the entries are kept sorted by the Ord of String
string_btree_insert(entries, k, v) ==
    LET less == {i \in DOMAIN entries : str_cmp(entries[i].k, k) = "Less"}
        eq == {i \in DOMAIN entries : entries[i].k = k}
        n == Cardinality(less)
    IN  IF eq # {}
        THEN LET i == CHOOSE j \in eq : TRUE
             IN  [entries EXCEPT ![i] = Entry(k, v)]
        ELSE Take(entries, n) \o <<Entry(k, v)>> \o Drop(entries, n)

\* ObjectAccessState for (&BTreeMap<String, V>, &IndexMap<String, V>)
ordered_has_key(naturals, others, key) ==
    (\E i \in DOMAIN others : others[i].k = key) \/ (\E i \in DOMAIN naturals : naturals[i].k = key)

\* ValueOrderedVisitor::visit_object of json/value.rs: the body of the loop
visit_entry(o, key, val) ==
    IF key = <<48>>
    THEN [o EXCEPT !.naturals = string_btree_insert(o.naturals, key, val)]
    ELSE IF is_nat_str(key)
         THEN [o EXCEPT !.naturals = string_btree_insert(o.naturals, key, val)]
         ELSE [o EXCEPT !.others = index_insert(o.others, key, val).map]

\* at most this many entries are read into an object
MaxEntries == 3

InitVisit ==
    /\ map = EmptyMap /\ map2 = EmptyMap
    /\ firstSeen = <<>>
    /\ bound = [k \in {} |-> Null]
    /\ ret = None
    /\ ninserts = 0
    /\ pc = "visit_object"
    /\ value = Null
    /\ bytes = <<>>
    /\ bytes2 = <<>>
    /\ result = None
    /\ \E compact \in BOOLEAN : cfg = [codec |-> "json", compact |-> compact]

\* next_entry_seed yields an entry with a new key: map is the RidiculousStringMap it is
\* inserted into, map2 the naturals and others of json/value.rs
VisitEntry(k, v) ==
    /\ pc = "visit_object"
    /\ ninserts < MaxEntries
    /\ ~ordered_has_key(map2.naturals, map2.others, k)
    /\ map' = insert(map, k, v).map
    /\ map2' = visit_entry(map2, k, v)
    /\ firstSeen' = Append(firstSeen, k)
    /\ bound' = [x \in DOMAIN bound \cup {k} |-> IF x = k THEN v ELSE bound[x]]
    /\ ninserts' = ninserts + 1
    /\ UNCHANGED <<ret, pc, value, bytes, bytes2, result, cfg>>

\* next_entry_seed meets a key the object has: next_key_seed returns DuplicateKey
VisitRepeatedKey(k) ==
    /\ pc = "visit_object"
    /\ ordered_has_key(map2.naturals, map2.others, k)
    /\ result' = Err("DuplicateKey")
    /\ pc' = "done"
    /\ UNCHANGED <<map, map2, firstSeen, bound, ret, ninserts, value, bytes, bytes2, cfg>>

\* next_entry_seed yields None: the two objects are returned, and each is serialized
VisitEnd ==
    /\ pc = "visit_object"
    /\ result' = Ok(Unit, <<>>)
    /\ bytes' = json_to_vec(ObjectOrdered(map), cfg.compact)
    /\ bytes2' = json_to_vec(ObjectOrdered(map2), cfg.compact)
    /\ pc' = "done"
    /\ UNCHANGED <<map, map2, firstSeen, bound, ret, ninserts, value, cfg>>

NextVisit ==
    \/ \E k \in MapKeys, v \in MapVals : VisitEntry(k, v)
    \/ \E k \in MapKeys : VisitRepeatedKey(k)
    \/ VisitEnd

SpecVisit == InitVisit /\ [][NextVisit]_vars

\* the keys of a sequence of entries, in their order
key_order(entries) == [i \in DOMAIN entries |-> entries[i].k]

(* C30: the ValueOrdered of the json value module serializes the entries of   *)
(* every object in the same order as the RidiculousStringMap-based            *)
(* ValueOrdered: the natural-like keys in ascending numeric value ("2" before *)
(* "10"), then the other keys in insertion order.                             *)
C30_JsonValueOrderedSameOrder ==
    /\ key_order(iter(map2)) = key_order(iter(map))
    /\ (pc = "done" /\ result.ok) => bytes2 = bytes

\* what holds of it: the same entries, the natural-like keys first and in the order of
\* their bytes, then the other keys in insertion order
json_value_ordered_is_lexicographic ==
    /\ Range(iter(map2)) = Range(iter(map))
    /\ map2.others = map.others
    /\ \A i \in DOMAIN map2.naturals : NaturalLike(map2.naturals[i].k)
    /\ \A i, j \in DOMAIN map2.naturals :
           i < j => str_cmp(map2.naturals[i].k, map2.naturals[j].k) = "Less"

=============================================================================
